---- MODULE Spec2Model ----
(***************************************************************************)
(* C4 diagram builders (C1.py context, C2.py container, C3.py component,   *)
(* C4.py code): the entity registry, the JSON serializer, the layout and   *)
(* the renderer, as a state machine over one diagram instance.             *)
(***************************************************************************)
EXTENDS Integers, Sequences, FiniteSets, TLC

VARIABLES diagram, dir_exists, files, figures, result, threads

vars == <<diagram, dir_exists, files, figures, result, threads>>

(***************************************************************************)
(* Bounds of the model.                                                    *)
(***************************************************************************)
\* the largest number of entities, and of edges, a diagram holds
MaxEntities == 2
MaxEdges == 2
\* the largest number of figures left open at once
MaxFigures == 1

(***************************************************************************)
(* Python values.  A string is a TLA+ string, a bool a BOOLEAN, a list a   *)
(* sequence; None is a value that is no string the callers pass.           *)
(***************************************************************************)
None == "<None>"

\* Python truthiness of an Optional[str]: `not v` holds for None and for "".
Falsy(v) == v = None \/ v = ""

\* None where an Optional[List[str]] is expected
NoList == <<None>>

\* `v or []` for an Optional[List[str]] (C4.py:61-62)
OrEmptyList(v) == IF v = NoList \/ v = <<>> THEN <<>> ELSE v

\* no value: what a call that raised returns
NoValue == [kind |-> "none"]

\* the outcome of a call: the object after it and the exception raised, if any
Return(d) == [self |-> d, exc |-> "ok", msg |-> <<>>]
Raise(d, e, m) == [self |-> d, exc |-> e, msg |-> <<m>>]

(***************************************************************************)
(* JSON values, as json.dumps writes them and json.loads reads them.       *)
(***************************************************************************)
JNull == [type |-> "null"]
JString(s) == [type |-> "string", value |-> s]
JBool(b) == [type |-> "boolean", value |-> b]
JArray(seq) == [type |-> "array", value |-> seq]
JObject(f) == [type |-> "object", value |-> f]

\* faulty variant of DumpOptStr: writes `value or ""`, so None is lost
DumpOptStrOrEmpty(v) == IF v = None THEN JString("") ELSE JString(v)

\* json.dumps of an Optional[str], a bool, a List[str]
DumpOptStr(v) == IF v = None THEN JNull ELSE JString(v)
DumpBool(b) == JBool(b)
DumpStrList(l) == JArray([i \in DOMAIN l |-> JString(l[i])])

\* json.loads of a scalar or of a list of strings: null is None
Load(j) ==
    CASE j.type = "null" -> None
      [] j.type = "array" -> [i \in DOMAIN j.value |-> j.value[i].value]
      [] OTHER -> j.value

\* faulty variant of DictGet: .get("type") without the default
DictGetNoDefault(obj, key, default) ==
    IF key \in DOMAIN obj THEN Load(obj[key])
    ELSE IF key = "type" THEN None ELSE default

\* dict.get(key, default) on a parsed JSON object
DictGet(obj, key, default) == IF key \in DOMAIN obj THEN Load(obj[key]) ELSE default

\* the subscripts obj[k] of a call's arguments, evaluated in the order written:
\* the first missing key raises KeyError(key)
HasKeys(obj, keys) == \A i \in DOMAIN keys : keys[i] \in DOMAIN obj

FirstMissing(obj, keys) ==
    keys[CHOOSE i \in DOMAIN keys :
            /\ keys[i] \notin DOMAIN obj
            /\ \A j \in 1..(i - 1) : keys[j] \in DOMAIN obj]

KeyError(d, obj, keys) == Raise(d, "KeyError", FirstMissing(obj, keys))

(***************************************************************************)
(* Construction: __init__ of the four classes, with the default filename.  *)
(***************************************************************************)
Levels == {"context", "container", "component", "code"}

C4ContextDiagram(system_name) ==
    [level |-> "context", system_name |-> system_name,
     output_filename |-> "c4_level1_context",
     users |-> <<>>, external_systems |-> <<>>, relationships |-> <<>>]

C4ContainerDiagram(system_name) ==
    [level |-> "container", system_name |-> system_name,
     output_filename |-> "c4_level2_container",
     containers |-> <<>>, relationships |-> <<>>]

C4ComponentDiagram(container_name) ==
    [level |-> "component", container_name |-> container_name,
     output_filename |-> "c4_level3_component",
     components |-> <<>>, relationships |-> <<>>]

C4CodeDiagram(component_name) ==
    [level |-> "code", component_name |-> component_name,
     output_filename |-> "c4_level4_code",
     classes |-> <<>>, associations |-> <<>>, inheritances |-> <<>>,
     interfaces |-> <<>>]

NewDiagram(lv, title) ==
    CASE lv = "context" -> C4ContextDiagram(title)
      [] lv = "container" -> C4ContainerDiagram(title)
      [] lv = "component" -> C4ComponentDiagram(title)
      [] lv = "code" -> C4CodeDiagram(title)

\* the title attribute of each level
TitleOf(d) ==
    CASE d.level \in {"context", "container"} -> d.system_name
      [] d.level = "component" -> d.container_name
      [] d.level = "code" -> d.component_name

\* the names of the collections of each level, entity collections first
EntityCollections(lv) ==
    CASE lv = "context" -> {"users", "external_systems"}
      [] lv = "container" -> {"containers"}
      [] lv = "component" -> {"components"}
      [] lv = "code" -> {"classes"}

EdgeCollections(lv) ==
    CASE lv = "code" -> {"associations", "inheritances", "interfaces"}
      [] OTHER -> {"relationships"}

Collections(lv) == EntityCollections(lv) \cup EdgeCollections(lv)

(***************************************************************************)
(* Registration: the add-operations.                                       *)
(***************************************************************************)
add_user(d, name, description, role) ==
    IF Falsy(name)
    THEN Raise(d, "ValueError", "User name cannot be empty")
    ELSE Return([d EXCEPT !.users = Append(@,
            [name |-> name, description |-> description, role |-> role])])

add_external_system(d, name, description, protocol) ==
    IF Falsy(name)
    THEN Raise(d, "ValueError", "External system name cannot be empty")
    ELSE Return([d EXCEPT !.external_systems = Append(@,
            [name |-> name, description |-> description, protocol |-> protocol])])

\* faulty variant of add_relationship1: the label is not checked
add_relationship1NoLabel(d, source, target, label, bidirectional) ==
    IF Falsy(source) \/ Falsy(target)
    THEN Raise(d, "ValueError", "Source, target and label cannot be empty")
    ELSE Return([d EXCEPT !.relationships = Append(@,
            [source |-> source, target |-> target, label |-> label,
             bidirectional |-> bidirectional])])

\* C1.py add_relationship
add_relationship1(d, source, target, label, bidirectional) ==
    IF Falsy(source) \/ Falsy(target) \/ Falsy(label)
    THEN Raise(d, "ValueError", "Source, target and label cannot be empty")
    ELSE Return([d EXCEPT !.relationships = Append(@,
            [source |-> source, target |-> target, label |-> label,
             bidirectional |-> bidirectional])])

\* faulty variant of add_container: the technology is not checked
add_containerNameOnly(d, name, technology, description, container_type, db_schema) ==
    IF Falsy(name)
    THEN Raise(d, "ValueError", "Container name and technology cannot be empty")
    ELSE Return([d EXCEPT !.containers = Append(@,
            [name |-> name, technology |-> technology,
             description |-> description, type |-> container_type,
             db_schema |-> db_schema])])

add_container(d, name, technology, description, container_type, db_schema) ==
    IF Falsy(name) \/ Falsy(technology)
    THEN Raise(d, "ValueError", "Container name and technology cannot be empty")
    ELSE Return([d EXCEPT !.containers = Append(@,
            [name |-> name, technology |-> technology,
             description |-> description, type |-> container_type,
             db_schema |-> db_schema])])

\* C2.py add_relationship
add_relationship2(d, source, target, label, protocol, bidirectional) ==
    IF Falsy(source) \/ Falsy(target) \/ Falsy(label)
    THEN Raise(d, "ValueError", "Source, target and label cannot be empty")
    ELSE Return([d EXCEPT !.relationships = Append(@,
            [source |-> source, target |-> target, label |-> label,
             protocol |-> protocol, bidirectional |-> bidirectional])])

\* faulty variant of add_component: insert(0, ...) instead of append(...)
add_componentInFront(d, name, technology, description, component_type, interface) ==
    IF Falsy(name) \/ Falsy(technology)
    THEN Raise(d, "ValueError", "Component name and technology cannot be empty")
    ELSE Return([d EXCEPT !.components =
            <<[name |-> name, technology |-> technology,
               description |-> description, type |-> component_type,
               interface |-> interface]>> \o @])

add_component(d, name, technology, description, component_type, interface) ==
    IF Falsy(name) \/ Falsy(technology)
    THEN Raise(d, "ValueError", "Component name and technology cannot be empty")
    ELSE Return([d EXCEPT !.components = Append(@,
            [name |-> name, technology |-> technology,
             description |-> description, type |-> component_type,
             interface |-> interface])])

\* C3.py add_relationship; the dict key of async_comm is "async"
add_relationship3(d, source, target, label, protocol, bidirectional, async_comm) ==
    IF Falsy(source) \/ Falsy(target) \/ Falsy(label)
    THEN Raise(d, "ValueError", "Source, target and label cannot be empty")
    ELSE Return([d EXCEPT !.relationships = Append(@,
            [source |-> source, target |-> target, label |-> label,
             protocol |-> protocol, bidirectional |-> bidirectional,
             async |-> async_comm])])

add_class(d, name, description, attributes, methods, class_type, is_abstract, is_interface) ==
    IF Falsy(name)
    THEN Raise(d, "ValueError", "Class name cannot be empty")
    ELSE Return([d EXCEPT !.classes = Append(@,
            [name |-> name, description |-> description,
             attributes |-> OrEmptyList(attributes),
             methods |-> OrEmptyList(methods), type |-> class_type,
             is_abstract |-> is_abstract, is_interface |-> is_interface])])

add_association(d, class1, class2, label, multiplicity, aggregation, composition) ==
    IF Falsy(class1) \/ Falsy(class2)
    THEN Raise(d, "ValueError", "Class names cannot be empty")
    ELSE Return([d EXCEPT !.associations = Append(@,
            [class1 |-> class1, class2 |-> class2, label |-> label,
             multiplicity |-> multiplicity, aggregation |-> aggregation,
             composition |-> composition])])

add_inheritance(d, subclass, superclass) ==
    IF Falsy(subclass) \/ Falsy(superclass)
    THEN Raise(d, "ValueError", "Class names cannot be empty")
    ELSE Return([d EXCEPT !.inheritances = Append(@,
            [subclass |-> subclass, superclass |-> superclass])])

add_interface_implementation(d, implementor, interface) ==
    IF Falsy(implementor) \/ Falsy(interface)
    THEN Raise(d, "ValueError", "Class names cannot be empty")
    ELSE Return([d EXCEPT !.interfaces = Append(@,
            [implementor |-> implementor, interface |-> interface])])

(***************************************************************************)
(* Serializer: to_json and from_json.                                      *)
(***************************************************************************)
BoolKeys == {"bidirectional", "async", "aggregation", "composition",
             "is_abstract", "is_interface"}
ListKeys == {"attributes", "methods"}

\* json.dumps of one registered dict: every key is written, None as null
DumpDict(e) ==
    JObject([k \in DOMAIN e |->
        CASE k \in BoolKeys -> DumpBool(e[k])
          [] k \in ListKeys -> DumpStrList(e[k])
          [] OTHER -> DumpOptStr(e[k])])

DumpList(l) == JArray([i \in DOMAIN l |-> DumpDict(l[i])])

TitleKey(lv) ==
    CASE lv \in {"context", "container"} -> "system_name"
      [] lv = "component" -> "container_name"
      [] lv = "code" -> "component_name"

\* the document to_json writes: the title and every collection, nothing else
to_json(d) ==
    [k \in {TitleKey(d.level)} \cup Collections(d.level) |->
        IF k = TitleKey(d.level) THEN JString(d[k]) ELSE DumpList(d[k])]

\* one iteration of a from_json loop: the subscripts, then the add call
feed(d, key, obj) ==
    CASE key = "users" ->
           IF ~HasKeys(obj, <<"name">>) THEN KeyError(d, obj, <<"name">>)
           ELSE add_user(d, Load(obj.name), DictGet(obj, "description", None),
                         DictGet(obj, "role", None))
      [] key = "external_systems" ->
           IF ~HasKeys(obj, <<"name">>) THEN KeyError(d, obj, <<"name">>)
           ELSE add_external_system(d, Load(obj.name),
                         DictGet(obj, "description", None),
                         DictGet(obj, "protocol", None))
      [] key = "containers" ->
           IF ~HasKeys(obj, <<"name", "technology">>) THEN KeyError(d, obj, <<"name", "technology">>)
           ELSE add_container(d, Load(obj.name), Load(obj.technology),
                         DictGet(obj, "description", None),
                         DictGet(obj, "type", "Application"),
                         DictGet(obj, "db_schema", None))
      [] key = "components" ->
           IF ~HasKeys(obj, <<"name", "technology">>) THEN KeyError(d, obj, <<"name", "technology">>)
           ELSE add_component(d, Load(obj.name), Load(obj.technology),
                         DictGet(obj, "description", None),
                         DictGet(obj, "type", "Service"),
                         DictGet(obj, "interface", None))
      [] key = "classes" ->
           IF ~HasKeys(obj, <<"name">>) THEN KeyError(d, obj, <<"name">>)
           ELSE add_class(d, Load(obj.name), DictGet(obj, "description", None),
                         DictGet(obj, "attributes", NoList),
                         DictGet(obj, "methods", NoList),
                         DictGet(obj, "type", "Class"),
                         DictGet(obj, "is_abstract", FALSE),
                         DictGet(obj, "is_interface", FALSE))
      [] key = "relationships" ->
           IF ~HasKeys(obj, <<"source", "target", "label">>) THEN KeyError(d, obj, <<"source", "target", "label">>)
           ELSE (CASE d.level = "context" ->
                       add_relationship1(d, Load(obj.source), Load(obj.target),
                           Load(obj.label), DictGet(obj, "bidirectional", FALSE))
                  [] d.level = "container" ->
                       add_relationship2(d, Load(obj.source), Load(obj.target),
                           Load(obj.label), DictGet(obj, "protocol", None),
                           DictGet(obj, "bidirectional", FALSE))
                  [] d.level = "component" ->
                       add_relationship3(d, Load(obj.source), Load(obj.target),
                           Load(obj.label), DictGet(obj, "protocol", None),
                           DictGet(obj, "bidirectional", FALSE),
                           DictGet(obj, "async", FALSE)))
      [] key = "associations" ->
           IF ~HasKeys(obj, <<"class1", "class2">>) THEN KeyError(d, obj, <<"class1", "class2">>)
           ELSE add_association(d, Load(obj.class1), Load(obj.class2),
                         DictGet(obj, "label", None),
                         DictGet(obj, "multiplicity", None),
                         DictGet(obj, "aggregation", FALSE),
                         DictGet(obj, "composition", FALSE))
      [] key = "inheritances" ->
           IF ~HasKeys(obj, <<"subclass", "superclass">>) THEN KeyError(d, obj, <<"subclass", "superclass">>)
           ELSE add_inheritance(d, Load(obj.subclass), Load(obj.superclass))
      [] key = "interfaces" ->
           IF ~HasKeys(obj, <<"implementor", "interface">>) THEN KeyError(d, obj, <<"implementor", "interface">>)
           ELSE add_interface_implementation(d, Load(obj.implementor),
                         Load(obj.interface))

\* `for x in json_data[key]: self.add_...(...)`, stopped by the first exception
RECURSIVE ForEach(_, _, _, _)
ForEach(r, key, list, i) ==
    IF r.exc # "ok" \/ i > Len(list) THEN r
    ELSE ForEach(feed(r.self, key, list[i].value), key, list, i + 1)

\* faulty variant of LoadCollection: a failing loop gives its entries back
LoadCollectionAtomic(r, doc, key) ==
    IF r.exc # "ok" \/ key \notin DOMAIN doc THEN r
    ELSE LET looped == ForEach(r, key, doc[key].value, 1)
         IN IF looped.exc = "ok" THEN looped
            ELSE [looped EXCEPT !.self = r.self]

\* `if key in json_data: for ...`
LoadCollection(r, doc, key) ==
    IF r.exc # "ok" \/ key \notin DOMAIN doc THEN r
    ELSE ForEach(r, key, doc[key].value, 1)

\* faulty variant of LoadTitle: the collections are emptied first
LoadTitleClearing(d, doc) ==
    LET e == [k \in DOMAIN d |-> IF k \in Collections(d.level) THEN <<>> ELSE d[k]]
    IN IF TitleKey(d.level) \in DOMAIN doc
       THEN Return([e EXCEPT ![TitleKey(d.level)] = Load(doc[TitleKey(d.level)])])
       ELSE Return(e)

\* `if "<title>" in json_data: self.<title> = json_data["<title>"]`
LoadTitle(d, doc) ==
    IF TitleKey(d.level) \in DOMAIN doc
    THEN Return([d EXCEPT ![TitleKey(d.level)] = Load(doc[TitleKey(d.level)])])
    ELSE Return(d)

from_json(d, doc) ==
    CASE d.level = "context" ->
           LoadCollection(LoadCollection(LoadCollection(LoadTitle(d, doc),
               doc, "users"), doc, "external_systems"), doc, "relationships")
      [] d.level = "container" ->
           LoadCollection(LoadCollection(LoadTitle(d, doc),
               doc, "containers"), doc, "relationships")
      [] d.level = "component" ->
           LoadCollection(LoadCollection(LoadTitle(d, doc),
               doc, "components"), doc, "relationships")
      [] d.level = "code" ->
           LoadCollection(LoadCollection(LoadCollection(LoadCollection(
               LoadTitle(d, doc), doc, "classes"), doc, "associations"),
               doc, "inheritances"), doc, "interfaces")

(***************************************************************************)
(* Numbers.  Python floats are modelled as exact rationals <<num, den>>    *)
(* in lowest terms with den > 0.                                           *)
(***************************************************************************)
Abs(n) == IF n < 0 THEN -n ELSE n

RECURSIVE GCD(_, _)
GCD(a, b) == IF b = 0 THEN a ELSE GCD(b, a % b)

Rat(n, d) ==
    LET g == GCD(Abs(n), Abs(d))
        sg == IF d < 0 THEN -1 ELSE 1
    IN <<(sg * n) \div g, (sg * d) \div g>>

RatMul(p, q) == Rat(p[1] * q[1], p[2] * q[2])
RatAdd(p, q) == Rat(p[1] * q[2] + q[1] * p[2], p[2] * q[2])
RatSub(p, q) == Rat(p[1] * q[2] - q[1] * p[2], p[2] * q[2])
RatInt(n) == <<n, 1>>

Max2(a, b) == IF a >= b THEN a ELSE b

\* int(np.ceil(np.sqrt(n))) and int(np.ceil(n / c)) for naturals
CeilSqrt(n) == CHOOSE k \in 0..n : k * k >= n /\ (k = 0 \/ (k - 1) * (k - 1) < n)
CeilDiv(n, c) == (n + c - 1) \div c

(***************************************************************************)
(* Style resolver.                                                         *)
(***************************************************************************)
ContainerColors ==
    [Application |-> <<"#e3f2fd", "#1565c0">>, Database |-> <<"#e8f5e9", "#2e7d32">>,
     Queue |-> <<"#fff3e0", "#ef6c00">>, Browser |-> <<"#f3e5f5", "#7b1fa2">>,
     Mobile |-> <<"#e0f7fa", "#00838f">>, API |-> <<"#ffebee", "#c62828">>]

_get_container_color(container_type) ==
    IF container_type \in DOMAIN ContainerColors
    THEN ContainerColors[container_type]
    ELSE <<"#f5f5f5", "#424242">>

ComponentColors ==
    [Service |-> <<"#e3f2fd", "#1565c0">>, Controller |-> <<"#e8f5e9", "#2e7d32">>,
     Repository |-> <<"#fff3e0", "#ef6c00">>, Client |-> <<"#f3e5f5", "#7b1fa2">>,
     Utility |-> <<"#e0f7fa", "#00838f">>, Gateway |-> <<"#ffebee", "#c62828">>]

_get_component_color(component_type) ==
    IF component_type \in DOMAIN ComponentColors
    THEN ComponentColors[component_type]
    ELSE <<"#f5f5f5", "#424242">>

\* faulty variant of _get_class_color: the type is looked up before the flags
_get_class_colorTypeFirst(class_type, is_abstract, is_interface) ==
    IF class_type = "Entity" THEN <<"#e8f5e9", "#2e7d32">>
    ELSE IF class_type = "Service" THEN <<"#fff3e0", "#ef6c00">>
    ELSE IF class_type = "Repository" THEN <<"#fce4ec", "#c2185b">>
    ELSE IF is_interface THEN <<"#f5f5f5", "#7b1fa2">>
    ELSE IF is_abstract THEN <<"#e3f2fd", "#0d47a1">>
    ELSE <<"#ffffff", "#424242">>

_get_class_color(class_type, is_abstract, is_interface) ==
    IF is_interface THEN <<"#f5f5f5", "#7b1fa2">>
    ELSE IF is_abstract THEN <<"#e3f2fd", "#0d47a1">>
    ELSE IF class_type = "Entity" THEN <<"#e8f5e9", "#2e7d32">>
    ELSE IF class_type = "Service" THEN <<"#fff3e0", "#ef6c00">>
    ELSE IF class_type = "Repository" THEN <<"#fce4ec", "#c2185b">>
    ELSE <<"#ffffff", "#424242">>

(***************************************************************************)
(* Layout engine.  A layout map is a function from entity names to         *)
(* positions; a later entity of the same name overwrites the earlier one.  *)
(***************************************************************************)
NamesOf(entities) == {entities[i].name : i \in DOMAIN entities}

\* faulty variant of LastIndex: the first assignment positions[name] = ... stays
FirstIndex(entities, name) ==
    CHOOSE i \in DOMAIN entities :
        /\ entities[i].name = name
        /\ \A j \in DOMAIN entities : entities[j].name = name => j >= i

\* the index whose assignment positions[name] = ... is the last one executed
LastIndex(entities, name) ==
    CHOOSE i \in DOMAIN entities :
        /\ entities[i].name = name
        /\ \A j \in DOMAIN entities : entities[j].name = name => j <= i

\* angle_step = 360 / len(entities), for a non-empty collection
AngleStep(n) == Rat(360, n)

\* faulty variant of CirclePosition: enumerate(..., 1), the index counted from 1
CirclePositionFromOne(idx, angle_step, radius) ==
    [radius |-> radius, angle |-> RatMul(RatInt(idx + 1), angle_step)]

\* (cos(radians(angle)) * radius, sin(radians(angle)) * radius) of entity idx
\* (0-based), kept as the radius and the angle in degrees
CirclePosition(idx, angle_step, radius) ==
    [radius |-> radius, angle |-> RatMul(RatInt(idx), angle_step)]

\* the circular layout of C2.py:186-195 and C3.py:258-272; the division
\* raises ZeroDivisionError for an empty collection
CircularLayout(entities, radius) ==
    IF Len(entities) = 0
    THEN [exc |-> "ZeroDivisionError", msg |-> <<"division by zero">>,
          angle_step |-> None, positions |-> <<>>, placed |-> <<>>]
    ELSE LET angle_step == AngleStep(Len(entities))
         IN [exc |-> "ok", msg |-> <<>>, angle_step |-> angle_step,
             positions |-> [nm \in NamesOf(entities) |->
                 CirclePosition(LastIndex(entities, nm) - 1, angle_step, radius)],
             placed |-> [i \in DOMAIN entities |->
                 CirclePosition(i - 1, angle_step, radius)]]

\* C3.py _calculate_positions
_calculate_positions3(d) == CircularLayout(d.components, 5)

\* faulty variant of GridPosition: start_x = -cols * x_spacing / 2
GridPositionOffCentre(idx, cols, rows) ==
    [col |-> idx % cols, row |-> idx \div cols,
     x |-> RatAdd(Rat(-(cols * 6), 2), RatInt((idx % cols) * 6)),
     y |-> RatSub(Rat((rows - 1) * 5, 2), RatInt((idx \div cols) * 5))]

\* the grid cell of class idx (0-based): x = start_x + col * 6, y = start_y - row * 5
GridPosition(idx, cols, rows) ==
    [col |-> idx % cols, row |-> idx \div cols,
     x |-> RatAdd(Rat(-((cols - 1) * 6), 2), RatInt((idx % cols) * 6)),
     y |-> RatSub(Rat((rows - 1) * 5, 2), RatInt((idx \div cols) * 5))]

\* C4.py _calculate_positions; num_classes / cols raises for no classes
_calculate_positions4(d) ==
    LET num_classes == Len(d.classes)
        cols == CeilSqrt(num_classes)
    IN IF cols = 0
       THEN [exc |-> "ZeroDivisionError", msg |-> <<"division by zero">>,
             cols |-> 0, rows |-> 0, positions |-> <<>>, placed |-> <<>>]
       ELSE LET rows == CeilDiv(num_classes, cols)
            IN [exc |-> "ok", msg |-> <<>>, cols |-> cols, rows |-> rows,
                positions |-> [nm \in NamesOf(d.classes) |->
                    GridPosition(LastIndex(d.classes, nm) - 1, cols, rows)],
                placed |-> [i \in DOMAIN d.classes |->
                    GridPosition(i - 1, cols, rows)]]

(***************************************************************************)
(* Renderer.  What a generate call draws is kept as the axes' content: the *)
(* texts and the arrows in drawing order.  A text's content is its list of *)
(* lines, a line the list of the pieces the f-string joins.                *)
(***************************************************************************)
Formats == {"png", "jpg", "svg", "pdf"}

Truthy(v) == ~Falsy(v)

Origin == [x |-> RatInt(0), y |-> RatInt(0)]

EmptyAx == [texts |-> <<>>, arrows |-> <<>>, patches |-> <<>>]

AddText(ax, at, lines, kind) ==
    [ax EXCEPT !.texts = Append(@, [at |-> at, lines |-> lines, kind |-> kind])]

AddArrow(ax, arrow) == [ax EXCEPT !.arrows = Append(@, arrow)]

\* the midpoint ((x1 + x2) / 2, (y1 + y2) / 2) of two positions, kept symbolic
MidPoint(src_pos, tgt_pos) == [mid_of |-> <<src_pos, tgt_pos>>]

\* os.path.join(output_dir, f"{self.output_filename}.{output_format}")
OutputPath(d, output_format) ==
    [dir |-> "diagrams_output", name |-> d.output_filename, ext |-> output_format]

\* the outcome of a generate call: the exception, what it did to the output
\* directory, to pyplot's figures and to the files, and what it drew
GenRaise(e, m, started) ==
    [exc |-> e, msg |-> m, mkdir |-> started, opened |-> started,
     saved |-> FALSE, closed |-> FALSE, value |-> NoValue]

GenReturn(path, ax, layout) ==
    [exc |-> "ok", msg |-> <<>>, mkdir |-> TRUE, opened |-> TRUE,
     saved |-> TRUE, closed |-> TRUE,
     value |-> [path |-> path, ax |-> ax, layout |-> layout]]

\* the end of every generate: drawing done (or failed), savefig, close
Finish(d, output_format, save_ok, drawn, layout) ==
    IF drawn.exc # "ok" THEN GenRaise(drawn.exc, drawn.msg, TRUE)
    ELSE IF ~save_ok THEN GenRaise("OSError", <<"savefig failed">>, TRUE)
    ELSE GenReturn(OutputPath(d, output_format), drawn.ax, layout)

\* faulty variant of Skipped: looks the source up only
SkippedSourceOnly(positions, source, target) == source \notin DOMAIN positions

\* faulty variant of Skipped: the second `not` is missing
SkippedMissingNot(positions, source, target) ==
    source \notin DOMAIN positions \/ target \in DOMAIN positions

\* `if source not in positions or target not in positions: continue`
Skipped(positions, source, target) ==
    source \notin DOMAIN positions \/ target \notin DOMAIN positions

\* positions[source], positions[target]: a missing key raises KeyError
Resolved(positions, source, target) ==
    source \in DOMAIN positions /\ target \in DOMAIN positions

\* label_text = rel["label"] + f" ({rel['protocol']})" when a protocol is given
RelLabel(rel) ==
    IF Truthy(rel.protocol) THEN <<<<rel.label, " (", rel.protocol, ")">>>>
    ELSE <<<<rel.label>>>>

\* ---- container level (C2.py:153-250)
ContainerLabel(c) ==
    <<<<c.name>>, <<"[", c.technology, "]">>>>
    \o (IF Truthy(c.description) THEN <<<<c.description>>>> ELSE <<>>)
    \o (IF Truthy(c.db_schema) THEN <<<<"Schema: ", c.db_schema>>>> ELSE <<>>)

RECURSIVE DrawContainers(_, _, _, _)
DrawContainers(ax, containers, placed, i) ==
    IF i > Len(containers) THEN ax
    ELSE DrawContainers(
            AddText(ax, placed[i], ContainerLabel(containers[i]),
                    [box |-> _get_container_color(containers[i].type)]),
            containers, placed, i + 1)

ContainerArrow(d, rel, positions) ==
    [xy |-> positions[rel.target], xytext |-> positions[rel.source],
     arrowstyle |-> IF rel.bidirectional THEN "<->" ELSE "->",
     linestyle |-> "-", color |-> "#555555",
     rad |-> IF Len(d.containers) > 3 THEN Rat(2, 10) ELSE RatInt(0)]

RECURSIVE DrawRelationships2(_, _, _, _)
DrawRelationships2(r, d, positions, i) ==
    IF r.exc # "ok" \/ i > Len(d.relationships) THEN r
    ELSE LET rel == d.relationships[i]
         IN IF Skipped(positions, rel.source, rel.target)
            THEN DrawRelationships2(r, d, positions, i + 1)
            ELSE IF ~Resolved(positions, rel.source, rel.target)
            THEN [r EXCEPT !.exc = "KeyError", !.msg = <<"positions">>]
            ELSE DrawRelationships2(
                    [r EXCEPT !.ax = AddText(
                        AddArrow(@, ContainerArrow(d, rel, positions)),
                        MidPoint(positions[rel.source], positions[rel.target]),
                        RelLabel(rel), [box |-> <<"white", "none">>])],
                    d, positions, i + 1)

Draw2(d) ==
    LET layout == CircularLayout(d.containers, 6)
        ax0 == AddText(EmptyAx, Origin, <<<<d.system_name>>>>,
                       [box |-> <<"#bbdefb", "black">>])
    IN IF layout.exc # "ok"
       THEN [exc |-> layout.exc, msg |-> layout.msg, ax |-> ax0, layout |-> layout]
       ELSE DrawRelationships2(
                [exc |-> "ok", msg |-> <<>>, layout |-> layout,
                 ax |-> DrawContainers(ax0, d.containers, layout.placed, 1)],
                d, layout.positions, 1)

\* faulty variant of EmptyCheck: the check is left out
NoEmptyCheck(entities) == FALSE

\* `if not self.containers: raise ValueError(...)` and its like
EmptyCheck(entities) == Len(entities) = 0

generate2(d, output_format, save_ok) ==
    IF output_format \notin Formats
    THEN GenRaise("ValueError", <<"Unsupported output format: ", output_format>>,
                  FALSE)
    ELSE IF EmptyCheck(d.containers)
    THEN GenRaise("ValueError", <<"No containers added to diagram">>, FALSE)
    ELSE LET drawn == Draw2(d)
         IN Finish(d, output_format, save_ok, drawn, drawn.layout)

\* ---- component level (C3.py:157-256)
ComponentLabel(c) ==
    <<<<c.name>>, <<"[", c.technology, "]">>>>
    \o (IF Truthy(c.description) THEN <<<<c.description>>>> ELSE <<>>)
    \o (IF Truthy(c.interface) THEN <<<<"Interface: ", c.interface>>>> ELSE <<>>)

RECURSIVE DrawComponents(_, _, _, _)
DrawComponents(ax, components, positions, i) ==
    IF i > Len(components) THEN ax
    ELSE DrawComponents(
            AddText(ax, positions[components[i].name],
                    ComponentLabel(components[i]),
                    [box |-> _get_component_color(components[i].type)]),
            components, positions, i + 1)

\* faulty variant of ComponentArrow: the bidirectional test comes after the async one
ComponentArrowBidirectionalLast(d, rel, positions) ==
    [xy |-> positions[rel.target], xytext |-> positions[rel.source],
     arrowstyle |-> IF rel.bidirectional THEN "<->"
                    ELSE IF rel.async THEN "-|>" ELSE "->",
     linestyle |-> IF rel.async THEN "--" ELSE "-",
     color |-> "#555555",
     rad |-> IF Len(d.components) > 3 THEN Rat(2, 10) ELSE RatInt(0)]

\* "->", then "<->" if bidirectional, then "-|>" and dashed if async
ComponentArrow(d, rel, positions) ==
    [xy |-> positions[rel.target], xytext |-> positions[rel.source],
     arrowstyle |-> IF rel.async THEN "-|>"
                    ELSE IF rel.bidirectional THEN "<->" ELSE "->",
     linestyle |-> IF rel.async THEN "--" ELSE "-",
     color |-> "#555555",
     rad |-> IF Len(d.components) > 3 THEN Rat(2, 10) ELSE RatInt(0)]

RECURSIVE DrawRelationships3(_, _, _, _)
DrawRelationships3(r, d, positions, i) ==
    IF r.exc # "ok" \/ i > Len(d.relationships) THEN r
    ELSE LET rel == d.relationships[i]
         IN IF Skipped(positions, rel.source, rel.target)
            THEN DrawRelationships3(r, d, positions, i + 1)
            ELSE IF ~Resolved(positions, rel.source, rel.target)
            THEN [r EXCEPT !.exc = "KeyError", !.msg = <<"positions">>]
            ELSE DrawRelationships3(
                    [r EXCEPT !.ax = AddText(
                        AddArrow(@, ComponentArrow(d, rel, positions)),
                        MidPoint(positions[rel.source], positions[rel.target]),
                        RelLabel(rel), [box |-> <<"white", "none">>])],
                    d, positions, i + 1)

Draw3(d) ==
    LET layout == _calculate_positions3(d)
        ax0 == AddText(
                 [EmptyAx EXCEPT !.patches = <<[kind |-> "boundary",
                      x |-> RatInt(-8), y |-> RatInt(-6),
                      width |-> RatInt(16), height |-> RatInt(12)]>>],
                 [x |-> RatInt(0), y |-> Rat(-65, 10)], <<<<d.container_name>>>>,
                 [box |-> <<"white", "#333333">>])
    IN IF layout.exc # "ok"
       THEN [exc |-> layout.exc, msg |-> layout.msg, ax |-> ax0, layout |-> layout]
       ELSE DrawRelationships3(
                [exc |-> "ok", msg |-> <<>>, layout |-> layout,
                 ax |-> DrawComponents(ax0, d.components, layout.positions, 1)],
                d, layout.positions, 1)

generate3(d, output_format, save_ok) ==
    IF output_format \notin Formats
    THEN GenRaise("ValueError", <<"Unsupported output format: ", output_format>>,
                  FALSE)
    ELSE IF EmptyCheck(d.components)
    THEN GenRaise("ValueError", <<"No components added to diagram">>, FALSE)
    ELSE LET drawn == Draw3(d)
         IN Finish(d, output_format, save_ok, drawn, drawn.layout)

\* ---- code level (C4.py:237-404)
\* height = 2.5 + 0.2 * (len(methods) + len(attributes)), + 0.4 with a
\* description, + 0.5 with more than 3 methods or attributes
ClassHeight(cls) ==
    RatAdd(RatAdd(Rat(25 + 2 * (Len(cls.methods) + Len(cls.attributes)), 10),
                  IF Truthy(cls.description) THEN Rat(4, 10) ELSE RatInt(0)),
           IF Len(cls.methods) > 3 \/ Len(cls.attributes) > 3
           THEN Rat(5, 10) ELSE RatInt(0))

\* the texts of one class box: name, description, attributes, methods
ClassTexts(cls) ==
    <<[kind |-> "name",
       lines |-> IF cls.is_interface THEN <<<<"<<interface>>">>, <<cls.name>>>>
                 ELSE <<<<cls.name>>>>]>>
    \o (IF Truthy(cls.description)
        THEN <<[kind |-> "description", lines |-> <<<<cls.description>>>>]>>
        ELSE <<>>)
    \o (IF cls.attributes # <<>>
        THEN <<[kind |-> "attributes",
                lines |-> [k \in DOMAIN cls.attributes |-> <<cls.attributes[k]>>]]>>
        ELSE <<>>)
    \o (IF cls.methods # <<>>
        THEN <<[kind |-> "methods",
                lines |-> [k \in DOMAIN cls.methods |-> <<cls.methods[k]>>]]>>
        ELSE <<>>)

_draw_class(ax, at, cls) ==
    LET colors == _get_class_color(cls.type, cls.is_abstract, cls.is_interface)
        texts == ClassTexts(cls)
    IN [ax EXCEPT
          !.patches = Append(@, [kind |-> "class", at |-> at,
                                 width |-> Rat(35, 10), height |-> ClassHeight(cls),
                                 facecolor |-> colors[1], edgecolor |-> colors[2]]),
          !.texts = @ \o [k \in DOMAIN texts |->
                            [at |-> at, lines |-> texts[k].lines,
                             kind |-> texts[k].kind]]]

RECURSIVE DrawClasses(_, _, _, _)
DrawClasses(ax, classes, positions, i) ==
    IF i > Len(classes) THEN ax
    ELSE DrawClasses(
            IF classes[i].name \in DOMAIN positions
            THEN _draw_class(ax, positions[classes[i].name], classes[i])
            ELSE ax,
            classes, positions, i + 1)

\* the arrow of each relationship type
RelationshipArrowStyle(rel_type) ==
    CASE rel_type = "inheritance" ->
           [arrowstyle |-> "-|>", linestyle |-> "-", color |-> "#0d47a1"]
      [] rel_type = "interface" ->
           [arrowstyle |-> "-|>", linestyle |-> "--", color |-> "#7b1fa2"]
      [] rel_type = "aggregation" ->
           [arrowstyle |-> "]-", linestyle |-> "-", color |-> "#ef6c00"]
      [] rel_type = "composition" ->
           [arrowstyle |-> "]-", linestyle |-> "-", color |-> "#c62828"]
      [] OTHER ->
           [arrowstyle |-> "->", linestyle |-> "-", color |-> "#333333"]

_draw_relationship(ax, start, end, rel_type, label, multiplicity) ==
    LET style == RelationshipArrowStyle(rel_type)
        ax1 == AddArrow(ax, [xy |-> end, xytext |-> start, rel_type |-> rel_type,
                             arrowstyle |-> style.arrowstyle,
                             linestyle |-> style.linestyle, color |-> style.color])
    IN IF Truthy(label) \/ Truthy(multiplicity)
       THEN AddText(ax1, MidPoint(start, end),
                    (IF Truthy(label) THEN <<<<label>>>> ELSE <<>>)
                    \o (IF Truthy(multiplicity) THEN <<<<multiplicity>>>> ELSE <<>>),
                    [box |-> <<"white", "none">>])
       ELSE ax1

\* faulty variant of AssociationType: the composition flag is tested first
AssociationTypeCompositionFirst(assoc) ==
    IF assoc.composition THEN "composition"
    ELSE IF assoc.aggregation THEN "aggregation" ELSE "association"

\* "aggregation" if assoc["aggregation"] else ("composition" if ... else "association")
AssociationType(assoc) ==
    IF assoc.aggregation THEN "aggregation"
    ELSE IF assoc.composition THEN "composition" ELSE "association"

\* the three edge lists of a code diagram as (start, end, type, label, multiplicity)
CodeEdges(d) ==
    [i \in DOMAIN d.associations |->
        [source |-> d.associations[i].class1, target |-> d.associations[i].class2,
         rel_type |-> AssociationType(d.associations[i]),
         label |-> d.associations[i].label,
         multiplicity |-> d.associations[i].multiplicity]]
    \o [i \in DOMAIN d.inheritances |->
        [source |-> d.inheritances[i].subclass,
         target |-> d.inheritances[i].superclass,
         rel_type |-> "inheritance", label |-> None, multiplicity |-> None]]
    \o [i \in DOMAIN d.interfaces |->
        [source |-> d.interfaces[i].implementor,
         target |-> d.interfaces[i].interface,
         rel_type |-> "interface", label |-> None, multiplicity |-> None]]

RECURSIVE DrawRelationships4(_, _, _, _)
DrawRelationships4(r, edges, positions, i) ==
    IF r.exc # "ok" \/ i > Len(edges) THEN r
    ELSE LET e == edges[i]
         IN IF Skipped(positions, e.source, e.target)
            THEN DrawRelationships4(r, edges, positions, i + 1)
            ELSE IF ~Resolved(positions, e.source, e.target)
            THEN [r EXCEPT !.exc = "KeyError", !.msg = <<"positions">>]
            ELSE DrawRelationships4(
                    [r EXCEPT !.ax = _draw_relationship(@, positions[e.source],
                        positions[e.target], e.rel_type, e.label, e.multiplicity)],
                    edges, positions, i + 1)

Draw4(d) ==
    LET layout == _calculate_positions4(d)
    IN IF layout.exc # "ok"
       THEN [exc |-> layout.exc, msg |-> layout.msg, ax |-> EmptyAx,
             layout |-> layout]
       ELSE DrawRelationships4(
                [exc |-> "ok", msg |-> <<>>, layout |-> layout,
                 ax |-> DrawClasses(EmptyAx, d.classes, layout.positions, 1)],
                CodeEdges(d), layout.positions, 1)

generate4(d, output_format, save_ok) ==
    IF output_format \notin Formats
    THEN GenRaise("ValueError", <<"Unsupported output format: ", output_format>>,
                  FALSE)
    ELSE IF EmptyCheck(d.classes)
    THEN GenRaise("ValueError", <<"No classes added to diagram">>, FALSE)
    ELSE LET drawn == Draw4(d)
         IN Finish(d, output_format, save_ok, drawn, drawn.layout)

\* ---- context level (C1.py:156-255)
\* the first relationship source -> target, or a bidirectional target -> source;
\* 0 stands for None
\* faulty variant of _find_relationship: the reverse match does not ask for
\* rel.get('bidirectional')
_find_relationshipEitherWay(d, source, target) ==
    LET Match(i) ==
            \/ d.relationships[i].source = source /\ d.relationships[i].target = target
            \/ /\ d.relationships[i].source = target
               /\ d.relationships[i].target = source
    IN IF \E i \in DOMAIN d.relationships : Match(i)
       THEN CHOOSE i \in DOMAIN d.relationships :
                Match(i) /\ \A j \in 1..(i - 1) : ~Match(j)
       ELSE 0

_find_relationship(d, source, target) ==
    LET Match(i) ==
            \/ d.relationships[i].source = source /\ d.relationships[i].target = target
            \/ /\ d.relationships[i].bidirectional
               /\ d.relationships[i].source = target
               /\ d.relationships[i].target = source
    IN IF \E i \in DOMAIN d.relationships : Match(i)
       THEN CHOOSE i \in DOMAIN d.relationships :
                Match(i) /\ \A j \in 1..(i - 1) : ~Match(j)
       ELSE 0

_find_relationship_label(d, source, target) ==
    LET rel == _find_relationship(d, source, target)
    IN IF rel # 0 THEN d.relationships[rel].label ELSE None

\* faulty variant of VerticalSpacing: the external systems are not counted
VerticalSpacingUsersOnly(d) == Rat(10, Max2(1, Max2(Len(d.users), 1)))

\* vertical_spacing = 10 / max(1, max(len(users), len(external_systems), 1))
VerticalSpacing(d) ==
    Rat(10, Max2(1, Max2(Max2(Len(d.users), Len(d.external_systems)), 1)))

\* faulty variant of YOffset: n // 2 instead of n / 2
YOffsetFloorDiv(idx, n, vertical_spacing) ==
    RatMul(RatInt(idx - (n \div 2)), vertical_spacing)

\* y_offset = (idx - n / 2) * vertical_spacing, idx 0-based
YOffset(idx, n, vertical_spacing) == RatMul(Rat(2 * idx - n, 2), vertical_spacing)

UserLabel(user) ==
    IF Truthy(user.role) THEN <<<<user.name>>, <<"(", user.role, ")">>>>
    ELSE <<<<user.name>>>>

SystemLabel(system) ==
    IF Truthy(system.protocol) THEN <<<<system.name>>, <<"(", system.protocol, ")">>>>
    ELSE <<<<system.name>>>>

DrawUser(ax, d, idx, vertical_spacing) ==
    LET user == d.users[idx + 1]
        y_offset == YOffset(idx, Len(d.users), vertical_spacing)
        rel_label == _find_relationship_label(d, user.name, d.system_name)
        ax1 == AddText(ax, [x |-> RatInt(-5), y |-> y_offset], UserLabel(user),
                       [box |-> <<"#e0f7fa", "blue">>])
        ax2 == AddArrow(ax1,
                 [xy |-> [x |-> Rat(-15, 10), y |-> RatMul(y_offset, Rat(2, 10))],
                  xytext |-> [x |-> RatInt(-4), y |-> y_offset],
                  arrowstyle |-> "->", linestyle |-> "-", color |-> "blue",
                  of |-> user.name])
    IN IF Truthy(rel_label)
       THEN AddText(ax2, [x |-> Rat(-25, 10), y |-> RatMul(y_offset, Rat(6, 10))],
                    <<<<rel_label>>>>, [box |-> <<"none", "none">>])
       ELSE ax2

DrawExternalSystem(ax, d, idx, vertical_spacing) ==
    LET system == d.external_systems[idx + 1]
        y_offset == YOffset(idx, Len(d.external_systems), vertical_spacing)
        rel == _find_relationship(d, d.system_name, system.name)
        bidir == rel # 0 /\ d.relationships[rel].bidirectional
        direction == IF ~bidir /\ rel # 0 /\ d.relationships[rel].source = system.name
                     THEN -1 ELSE 1
        ax1 == AddText(ax, [x |-> RatInt(5), y |-> y_offset], SystemLabel(system),
                       [box |-> <<"#e8f5e9", "green">>])
        ax2 == AddArrow(ax1,
                 [xy |-> [x |-> Rat(15 * direction, 10),
                          y |-> RatMul(y_offset, Rat(2, 10))],
                  xytext |-> [x |-> RatInt(4 * direction), y |-> y_offset],
                  arrowstyle |-> IF bidir THEN "<->" ELSE "->",
                  linestyle |-> "-", color |-> "green", of |-> system.name])
    IN IF rel # 0
       THEN AddText(ax2, [x |-> Rat(25 * direction, 10),
                          y |-> RatMul(y_offset, Rat(6, 10))],
                    <<<<d.relationships[rel].label>>>>, [box |-> <<"none", "none">>])
       ELSE ax2

RECURSIVE DrawUsers(_, _, _, _)
DrawUsers(ax, d, idx, vertical_spacing) ==
    IF idx >= Len(d.users) THEN ax
    ELSE DrawUsers(DrawUser(ax, d, idx, vertical_spacing), d, idx + 1,
                   vertical_spacing)

RECURSIVE DrawExternalSystems(_, _, _, _)
DrawExternalSystems(ax, d, idx, vertical_spacing) ==
    IF idx >= Len(d.external_systems) THEN ax
    ELSE DrawExternalSystems(DrawExternalSystem(ax, d, idx, vertical_spacing), d,
                             idx + 1, vertical_spacing)

Draw1(d) ==
    LET vertical_spacing == VerticalSpacing(d)
        ax0 == AddText(EmptyAx, Origin, <<<<d.system_name>>>>,
                       [box |-> <<"#f0f0f0", "black">>])
    IN [exc |-> "ok", msg |-> <<>>,
        layout |-> [vertical_spacing |-> vertical_spacing,
                    users |-> [i \in DOMAIN d.users |->
                        [x |-> RatInt(-5),
                         y |-> YOffset(i - 1, Len(d.users), vertical_spacing)]],
                    external_systems |-> [i \in DOMAIN d.external_systems |->
                        [x |-> RatInt(5),
                         y |-> YOffset(i - 1, Len(d.external_systems),
                                       vertical_spacing)]]],
        ax |-> DrawExternalSystems(DrawUsers(ax0, d, 0, vertical_spacing), d, 0,
                                   vertical_spacing)]

\* faulty variant of generate1: os.makedirs runs before the format is checked
generate1MkdirFirst(d, output_format, save_ok) ==
    IF output_format \notin Formats
    THEN [GenRaise("ValueError", <<"Unsupported output format: ", output_format>>,
                   FALSE) EXCEPT !.mkdir = TRUE]
    ELSE LET drawn == Draw1(d)
         IN Finish(d, output_format, save_ok, drawn, drawn.layout)

generate1(d, output_format, save_ok) ==
    IF output_format \notin Formats
    THEN GenRaise("ValueError", <<"Unsupported output format: ", output_format>>,
                  FALSE)
    ELSE LET drawn == Draw1(d)
         IN Finish(d, output_format, save_ok, drawn, drawn.layout)

generate(d, output_format, save_ok) ==
    CASE d.level = "context" -> generate1(d, output_format, save_ok)
      [] d.level = "container" -> generate2(d, output_format, save_ok)
      [] d.level = "component" -> generate3(d, output_format, save_ok)
      [] d.level = "code" -> generate4(d, output_format, save_ok)

(***************************************************************************)
(* pyplot's figures: the open figures in creation order; the current       *)
(* figure is the last one.                                                 *)
(***************************************************************************)
\* plt.subplots(): a new figure, numbered after the highest open one
Subplots(figs) == Append(figs, IF figs = <<>> THEN 1 ELSE figs[Len(figs)] + 1)

\* plt.close(): closes the current figure
Close(figs) == IF figs = <<>> THEN figs ELSE SubSeq(figs, 1, Len(figs) - 1)

(***************************************************************************)
(* The callers' inputs: a small set of argument tuples for each operation. *)
(* Entity "a" is registered with the required fields only, entity "b" with *)
(* every optional field; each operation also gets an empty and an absent   *)
(* required field.                                                         *)
(***************************************************************************)
\* a name no entity is registered under
Dangling == "z"
\* the title every diagram is constructed with, and the title of the documents
Title == "S"
DocTitle == "T"

UserArgs ==
    {[name |-> "a", description |-> None, role |-> None],
     [name |-> "b", description |-> "desc", role |-> "Admin"],
     [name |-> "", description |-> None, role |-> None],
     [name |-> None, description |-> "desc", role |-> "Admin"]}

ExternalSystemArgs ==
    {[name |-> "a", description |-> None, protocol |-> None],
     [name |-> "b", description |-> "desc", protocol |-> "HTTP"],
     [name |-> "", description |-> None, protocol |-> None],
     [name |-> None, description |-> "desc", protocol |-> "HTTP"]}

Relationship1Args ==
    {[source |-> "a", target |-> Title, label |-> "uses", bidirectional |-> FALSE],
     [source |-> Title, target |-> "b", label |-> "uses", bidirectional |-> FALSE],
     [source |-> "b", target |-> Title, label |-> "sends", bidirectional |-> FALSE],
     [source |-> "b", target |-> Title, label |-> "syncs", bidirectional |-> TRUE],
     [source |-> "a", target |-> Dangling, label |-> "uses", bidirectional |-> FALSE],
     [source |-> "", target |-> Title, label |-> "uses", bidirectional |-> FALSE],
     [source |-> "a", target |-> None, label |-> "uses", bidirectional |-> FALSE],
     [source |-> "a", target |-> Title, label |-> "", bidirectional |-> FALSE],
     [source |-> "a", target |-> Title, label |-> None, bidirectional |-> TRUE]}

ContainerArgs ==
    {[name |-> "a", technology |-> "tech", description |-> None,
      type |-> "Application", db_schema |-> None],
     [name |-> "b", technology |-> "tech", description |-> "desc",
      type |-> "Database", db_schema |-> "schema"],
     [name |-> "", technology |-> "tech", description |-> None,
      type |-> "Application", db_schema |-> None],
     [name |-> None, technology |-> "tech", description |-> None,
      type |-> "Application", db_schema |-> None],
     [name |-> "a", technology |-> "", description |-> None,
      type |-> "Application", db_schema |-> None],
     [name |-> "a", technology |-> None, description |-> "desc",
      type |-> "Database", db_schema |-> None]}

Relationship2Args ==
    {[source |-> "a", target |-> "b", label |-> "calls", protocol |-> None,
      bidirectional |-> FALSE],
     [source |-> "b", target |-> "a", label |-> "calls", protocol |-> "HTTPS",
      bidirectional |-> TRUE],
     [source |-> "a", target |-> Dangling, label |-> "calls", protocol |-> None,
      bidirectional |-> FALSE],
     [source |-> Dangling, target |-> "b", label |-> "calls", protocol |-> "HTTPS",
      bidirectional |-> FALSE],
     [source |-> "", target |-> "b", label |-> "calls", protocol |-> None,
      bidirectional |-> FALSE],
     [source |-> "a", target |-> None, label |-> "calls", protocol |-> None,
      bidirectional |-> FALSE],
     [source |-> "a", target |-> "b", label |-> "", protocol |-> None,
      bidirectional |-> FALSE],
     [source |-> "a", target |-> "b", label |-> None, protocol |-> "HTTPS",
      bidirectional |-> TRUE]}

ComponentArgs ==
    {[name |-> "a", technology |-> "tech", description |-> None,
      type |-> "Service", interface |-> None],
     [name |-> "b", technology |-> "tech", description |-> "desc",
      type |-> "Controller", interface |-> "REST API"],
     [name |-> "", technology |-> "tech", description |-> None,
      type |-> "Service", interface |-> None],
     [name |-> None, technology |-> "tech", description |-> None,
      type |-> "Service", interface |-> None],
     [name |-> "a", technology |-> "", description |-> None,
      type |-> "Service", interface |-> None],
     [name |-> "a", technology |-> None, description |-> "desc",
      type |-> "Controller", interface |-> None]}

Relationship3Args ==
    {[source |-> "a", target |-> "b", label |-> "calls", protocol |-> None,
      bidirectional |-> FALSE, async |-> FALSE],
     [source |-> "b", target |-> "a", label |-> "calls", protocol |-> "gRPC",
      bidirectional |-> TRUE, async |-> FALSE],
     [source |-> "a", target |-> "b", label |-> "emits", protocol |-> None,
      bidirectional |-> TRUE, async |-> TRUE],
     [source |-> "a", target |-> Dangling, label |-> "calls", protocol |-> None,
      bidirectional |-> FALSE, async |-> TRUE],
     [source |-> "", target |-> "b", label |-> "calls", protocol |-> None,
      bidirectional |-> FALSE, async |-> FALSE],
     [source |-> "a", target |-> None, label |-> "calls", protocol |-> None,
      bidirectional |-> FALSE, async |-> FALSE],
     [source |-> "a", target |-> "b", label |-> "", protocol |-> None,
      bidirectional |-> FALSE, async |-> FALSE],
     [source |-> "a", target |-> "b", label |-> None, protocol |-> "gRPC",
      bidirectional |-> TRUE, async |-> FALSE]}

ClassArgs ==
    {[name |-> "a", description |-> None, attributes |-> NoList,
      methods |-> NoList, type |-> "Class", is_abstract |-> FALSE,
      is_interface |-> FALSE],
     [name |-> "b", description |-> "desc", attributes |-> <<"id: int">>,
      methods |-> <<"save()">>, type |-> "Entity", is_abstract |-> TRUE,
      is_interface |-> FALSE],
     [name |-> "", description |-> None, attributes |-> NoList,
      methods |-> <<>>, type |-> "Class", is_abstract |-> FALSE,
      is_interface |-> FALSE],
     [name |-> None, description |-> "desc", attributes |-> <<"id: int">>,
      methods |-> NoList, type |-> "Entity", is_abstract |-> FALSE,
      is_interface |-> TRUE]}

AssociationArgs ==
    {[class1 |-> "a", class2 |-> "b", label |-> None, multiplicity |-> None,
      aggregation |-> FALSE, composition |-> FALSE],
     [class1 |-> "a", class2 |-> "b", label |-> "has", multiplicity |-> "1..*",
      aggregation |-> TRUE, composition |-> TRUE],
     [class1 |-> "b", class2 |-> "a", label |-> "owns", multiplicity |-> None,
      aggregation |-> FALSE, composition |-> TRUE],
     [class1 |-> "a", class2 |-> Dangling, label |-> "has", multiplicity |-> None,
      aggregation |-> TRUE, composition |-> FALSE],
     [class1 |-> "", class2 |-> "b", label |-> "has", multiplicity |-> None,
      aggregation |-> FALSE, composition |-> FALSE],
     [class1 |-> "a", class2 |-> None, label |-> "has", multiplicity |-> None,
      aggregation |-> FALSE, composition |-> FALSE]}

\* the output formats asked for: a supported one and an unsupported one
FormatArgs == {"png", "bmp"}

InheritanceArgs ==
    {[subclass |-> "a", superclass |-> "b"],
     [subclass |-> "a", superclass |-> Dangling],
     [subclass |-> "", superclass |-> "b"],
     [subclass |-> "a", superclass |-> None]}

InterfaceArgs ==
    {[implementor |-> "b", interface |-> "a"],
     [implementor |-> Dangling, interface |-> "a"],
     [implementor |-> None, interface |-> "a"],
     [implementor |-> "b", interface |-> ""]}

(***************************************************************************)
(* The documents given to from_json: one that leaves the optional keys out *)
(* and carries an unknown key, one whose second entry has an empty         *)
(* required field, one whose second entry lacks a required key.            *)
(***************************************************************************)
ContextDocs ==
    {[system_name |-> JString(DocTitle),
      users |-> JArray(<<JObject([name |-> JString("a"), note |-> JString("x")])>>),
      relationships |-> JArray(<<JObject([source |-> JString("a"),
            target |-> JString(DocTitle), label |-> JString("uses")])>>),
      version |-> JString("1")],
     [users |-> JArray(<<JObject([name |-> JString("b"), description |-> JNull,
            role |-> JString("Admin")]), JObject([name |-> JString("")])>>)],
     [system_name |-> JString(DocTitle),
      external_systems |-> JArray(<<JObject([name |-> JString("a")]),
            JObject([description |-> JString("desc")])>>)]}

ContainerDocs ==
    {[system_name |-> JString(DocTitle),
      containers |-> JArray(<<JObject([name |-> JString("a"),
            technology |-> JString("tech"), note |-> JString("x")])>>),
      relationships |-> JArray(<<JObject([source |-> JString("a"),
            target |-> JString("b"), label |-> JString("calls")])>>),
      version |-> JString("1")],
     [containers |-> JArray(<<JObject([name |-> JString("b"),
            technology |-> JString("tech"), description |-> JNull,
            type |-> JString("Queue")]),
            JObject([name |-> JString("a"), technology |-> JString("")])>>)],
     [system_name |-> JString(DocTitle),
      containers |-> JArray(<<JObject([name |-> JString("a"),
            technology |-> JString("tech")]),
            JObject([name |-> JString("b")])>>)]}

ComponentDocs ==
    {[container_name |-> JString(DocTitle),
      components |-> JArray(<<JObject([name |-> JString("a"),
            technology |-> JString("tech"), note |-> JString("x")])>>),
      relationships |-> JArray(<<JObject([source |-> JString("a"),
            target |-> JString("b"), label |-> JString("calls")])>>),
      version |-> JString("1")],
     [components |-> JArray(<<JObject([name |-> JString("b"),
            technology |-> JString("tech"), description |-> JNull,
            type |-> JString("Gateway")]),
            JObject([name |-> JString(""), technology |-> JString("tech")])>>)],
     [container_name |-> JString(DocTitle),
      relationships |-> JArray(<<JObject([source |-> JString("a"),
            target |-> JString("b"), label |-> JString("calls"),
            async |-> JBool(TRUE)]),
            JObject([source |-> JString("a"), target |-> JString("b")])>>)]}

CodeDocs ==
    {[component_name |-> JString(DocTitle),
      classes |-> JArray(<<JObject([name |-> JString("a"), note |-> JString("x")])>>),
      associations |-> JArray(<<JObject([class1 |-> JString("a"),
            class2 |-> JString("b")])>>),
      version |-> JString("1")],
     [classes |-> JArray(<<JObject([name |-> JString("b"), description |-> JNull,
            methods |-> JArray(<<JString("run()")>>),
            is_interface |-> JBool(TRUE)]), JObject([name |-> JString("")])>>)],
     [component_name |-> JString(DocTitle),
      inheritances |-> JArray(<<JObject([subclass |-> JString("a"),
            superclass |-> JString("b")]),
            JObject([subclass |-> JString("a")])>>),
      interfaces |-> JArray(<<JObject([implementor |-> JString("a"),
            interface |-> JString("b")])>>)]}

Docs(lv) ==
    CASE lv = "context" -> ContextDocs
      [] lv = "container" -> ContainerDocs
      [] lv = "component" -> ComponentDocs
      [] lv = "code" -> CodeDocs

(***************************************************************************)
(* The state machine.                                                      *)
(***************************************************************************)
RECURSIVE SumLen(_, _)
SumLen(d, keys) ==
    IF keys = {} THEN 0
    ELSE LET k == CHOOSE x \in keys : TRUE
         IN Len(d[k]) + SumLen(d, keys \ {k})

\* the numbers of entities and of edges the diagram holds
NumEntities(d) == SumLen(d, EntityCollections(d.level))
NumEdges(d) == SumLen(d, EdgeCollections(d.level))


Init ==
    /\ diagram \in {NewDiagram(lv, Title) : lv \in Levels}
    /\ dir_exists = FALSE
    /\ files = {}
    /\ figures = <<>>
    /\ result = [op |-> "__init__", exc |-> "ok", msg |-> <<>>, value |-> NoValue]
    /\ threads = <<>>

\* a call that touches the registry only: r is its outcome
Call(op, outcome) ==
    \E r \in {outcome} :
        /\ NumEntities(r.self) <= MaxEntities
        /\ NumEdges(r.self) <= MaxEdges
        /\ diagram' = r.self
        /\ result' = [op |-> op, exc |-> r.exc, msg |-> r.msg, value |-> NoValue]
        /\ UNCHANGED <<dir_exists, files, figures, threads>>

AddUser ==
    /\ diagram.level = "context"
    /\ \E a \in UserArgs :
         Call("add_user", add_user(diagram, a.name, a.description, a.role))

AddExternalSystem ==
    /\ diagram.level = "context"
    /\ \E a \in ExternalSystemArgs :
         Call("add_external_system",
              add_external_system(diagram, a.name, a.description, a.protocol))

AddRelationship ==
    \/ /\ diagram.level = "context"
       /\ \E a \in Relationship1Args :
            Call("add_relationship",
                 add_relationship1(diagram, a.source, a.target, a.label,
                                   a.bidirectional))
    \/ /\ diagram.level = "container"
       /\ \E a \in Relationship2Args :
            Call("add_relationship",
                 add_relationship2(diagram, a.source, a.target, a.label,
                                   a.protocol, a.bidirectional))
    \/ /\ diagram.level = "component"
       /\ \E a \in Relationship3Args :
            Call("add_relationship",
                 add_relationship3(diagram, a.source, a.target, a.label,
                                   a.protocol, a.bidirectional, a.async))

AddContainer ==
    /\ diagram.level = "container"
    /\ \E a \in ContainerArgs :
         Call("add_container",
              add_container(diagram, a.name, a.technology, a.description,
                            a.type, a.db_schema))

AddComponent ==
    /\ diagram.level = "component"
    /\ \E a \in ComponentArgs :
         Call("add_component",
              add_component(diagram, a.name, a.technology, a.description,
                            a.type, a.interface))

AddClass ==
    /\ diagram.level = "code"
    /\ \E a \in ClassArgs :
         Call("add_class",
              add_class(diagram, a.name, a.description, a.attributes, a.methods,
                        a.type, a.is_abstract, a.is_interface))

AddAssociation ==
    /\ diagram.level = "code"
    /\ \E a \in AssociationArgs :
         Call("add_association",
              add_association(diagram, a.class1, a.class2, a.label,
                              a.multiplicity, a.aggregation, a.composition))

AddInheritance ==
    /\ diagram.level = "code"
    /\ \E a \in InheritanceArgs :
         Call("add_inheritance",
              add_inheritance(diagram, a.subclass, a.superclass))

AddInterfaceImplementation ==
    /\ diagram.level = "code"
    /\ \E a \in InterfaceArgs :
         Call("add_interface_implementation",
              add_interface_implementation(diagram, a.implementor, a.interface))

\* diagram.from_json(doc), with a given document or with the diagram's own export
FromJson ==
    \E doc \in Docs(diagram.level) \cup {to_json(diagram)} :
        Call("from_json", from_json(diagram, doc))

\* diagram.to_json()
ToJson ==
    /\ diagram' = diagram
    /\ result' = [op |-> "to_json", exc |-> "ok", msg |-> <<>>,
                  value |-> to_json(diagram)]
    /\ UNCHANGED <<dir_exists, files, figures, threads>>

\* new_diagram = Cls("Temp").from_json(diagram.to_json())   (C1.py:281-286)
RoundTrip ==
    \E r \in {from_json(NewDiagram(diagram.level, "Temp"), to_json(diagram))} :
       /\ diagram' = diagram
       /\ result' = [op |-> "round_trip", exc |-> r.exc, msg |-> r.msg,
                     value |-> r.self]
       /\ UNCHANGED <<dir_exists, files, figures, threads>>

\* faulty variant of Generate: self.positions = ... keeps the layout map
GenerateStoresLayout ==
    \E output_format \in FormatArgs, save_ok \in BOOLEAN :
        \E o \in {generate(diagram, output_format, save_ok)} :
            /\ (o.opened /\ ~o.closed) => Len(figures) < MaxFigures
            /\ diagram' = IF o.exc = "ok"
                          THEN [k \in DOMAIN diagram \cup {"positions"} |->
                                   IF k = "positions" THEN o.value.layout
                                   ELSE diagram[k]]
                          ELSE diagram
            /\ dir_exists' = (dir_exists \/ o.mkdir)
            /\ figures' = IF ~o.opened THEN figures
                          ELSE IF o.closed THEN Close(Subplots(figures))
                          ELSE Subplots(figures)
            /\ files' = IF o.saved
                        THEN files \cup {OutputPath(diagram, output_format)}
                        ELSE files
            /\ result' = [op |-> "generate", exc |-> o.exc, msg |-> o.msg,
                          value |-> o.value]
            /\ UNCHANGED threads

\* diagram.generate(output_format); savefig succeeds or fails (save_ok)
Generate ==
    \E output_format \in FormatArgs, save_ok \in BOOLEAN :
        \E o \in {generate(diagram, output_format, save_ok)} :
            /\ (o.opened /\ ~o.closed) => Len(figures) < MaxFigures
            /\ diagram' = diagram
            /\ dir_exists' = (dir_exists \/ o.mkdir)
            /\ figures' = IF ~o.opened THEN figures
                          ELSE IF o.closed THEN Close(Subplots(figures))
                          ELSE Subplots(figures)
            /\ files' = IF o.saved
                        THEN files \cup {OutputPath(diagram, output_format)}
                        ELSE files
            /\ result' = [op |-> "generate", exc |-> o.exc, msg |-> o.msg,
                          value |-> o.value]
            /\ UNCHANGED threads

Next ==
    \/ AddUser
    \/ AddExternalSystem
    \/ AddRelationship
    \/ AddContainer
    \/ AddComponent
    \/ AddClass
    \/ AddAssociation
    \/ AddInheritance
    \/ AddInterfaceImplementation
    \/ FromJson
    \/ ToJson
    \/ RoundTrip
    \/ Generate

Spec == Init /\ [][Next]_vars

(***************************************************************************)
(* The layouts on their own: diagrams that hold entities only, registered  *)
(* by add calls with the required arguments, of every size up to a bound,  *)
(* and rendered.                                                           *)
(***************************************************************************)
MaxGroup == 3
MaxRing == 5

LayoutNames == {"a", "b"}

SeqsUpTo(S, n) == UNION {[1..k -> S] : k \in 0..n}

\* one add call with the required arguments only
AddMinimal(d, key, name) ==
    CASE key = "users" -> add_user(d, name, None, None)
      [] key = "external_systems" -> add_external_system(d, name, None, None)
      [] key = "containers" ->
           add_container(d, name, "tech", None, "Application", None)
      [] key = "components" -> add_component(d, name, "tech", None, "Service", None)
      [] key = "classes" ->
           add_class(d, name, None, NoList, NoList, "Class", FALSE, FALSE)

\* d.add_...(names[1]).add_...(names[2])...
RECURSIVE Populate(_, _, _)
Populate(d, key, names) ==
    IF names = <<>> THEN d
    ELSE Populate(AddMinimal(d, key, Head(names)).self, key, Tail(names))

LayoutDiagrams ==
    {Populate(Populate(C4ContextDiagram(Title), "users", u), "external_systems", e) :
        u \in SeqsUpTo(LayoutNames, MaxGroup), e \in SeqsUpTo(LayoutNames, MaxGroup)}
    \cup {Populate(C4ContainerDiagram(Title), "containers", n) :
            n \in SeqsUpTo(LayoutNames, MaxRing)}
    \cup {Populate(C4ComponentDiagram(Title), "components", n) :
            n \in SeqsUpTo(LayoutNames, MaxRing)}
    \cup {Populate(C4CodeDiagram(Title), "classes", n) :
            n \in SeqsUpTo(LayoutNames, MaxRing)}

InitLayout ==
    /\ diagram \in LayoutDiagrams
    /\ dir_exists = FALSE
    /\ files = {}
    /\ figures = <<>>
    /\ result = [op |-> "__init__", exc |-> "ok", msg |-> <<>>, value |-> NoValue]
    /\ threads = <<>>

NextLayout == Generate

SpecLayout == InitLayout /\ [][NextLayout]_vars

(***************************************************************************)
(* The concurrency specification: two threads, each calling generate() on  *)
(* a diagram of its own.  A call is split at its pyplot calls, which act   *)
(* on the process-wide figure registry: plt.subplots() registers a figure  *)
(* and makes it current, plt.savefig() writes the current figure,          *)
(* plt.close() closes the current figure.  The drawing goes through the    *)
(* thread's own `ax`.                                                      *)
(***************************************************************************)
\* the diagrams the threads hold: one entity registered, or none
ThreadDiagrams ==
    UNION {{Populate(NewDiagram(lv, Title), key, names) :
               key \in EntityCollections(lv), names \in {<<>>, <<"a">>}} :
           lv \in Levels}

\* a thread before its call: nothing opened, saved or closed yet (0)
NewThread(d) ==
    [pc |-> "start", self |-> d, output_format |-> None,
     fig |-> 0, saved |-> 0, closed |-> 0]

InitThreads ==
    /\ diagram = NewDiagram("context", Title)
    /\ dir_exists = FALSE
    /\ files = {}
    /\ figures = <<>>
    /\ result = [op |-> "__init__", exc |-> "ok", msg |-> <<>>, value |-> NoValue]
    /\ \E d1 \in ThreadDiagrams, d2 \in ThreadDiagrams :
         /\ d1.output_filename # d2.output_filename
         /\ threads = <<NewThread(d1), NewThread(d2)>>

\* the format check, the emptiness check and the creation of the directory
Enter(t) ==
    /\ threads[t].pc = "start"
    /\ \E output_format \in FormatArgs :
         \E o \in {generate(threads[t].self, output_format, TRUE)} :
            /\ threads' = [threads EXCEPT
                   ![t].pc = IF o.opened THEN "entered" ELSE "done",
                   ![t].output_format = output_format]
            /\ dir_exists' = (dir_exists \/ o.mkdir)
    /\ UNCHANGED <<diagram, files, figures, result>>

\* fig, ax = plt.subplots(...)
OpenFigure(t) ==
    /\ threads[t].pc = "entered"
    /\ figures' = Subplots(figures)
    /\ threads' = [threads EXCEPT ![t].pc = "opened",
                                  ![t].fig = figures'[Len(figures')]]
    /\ UNCHANGED <<diagram, dir_exists, files, result>>

\* the ax.text / ax.annotate calls: on the thread's own axes
DrawOnAx(t) ==
    /\ threads[t].pc = "opened"
    /\ threads' = [threads EXCEPT
           ![t].pc = IF generate(threads[t].self, threads[t].output_format,
                                 TRUE).exc = "ok"
                     THEN "drawn" ELSE "done"]
    /\ UNCHANGED <<diagram, dir_exists, files, figures, result>>

\* plt.savefig(output_path, ...): writes the current figure, or raises
SaveFigure(t) ==
    /\ threads[t].pc = "drawn"
    /\ \E save_ok \in BOOLEAN :
         IF save_ok
         THEN /\ figures' = IF figures = <<>> THEN Subplots(figures) ELSE figures
              /\ files' = files \cup {OutputPath(threads[t].self,
                                                 threads[t].output_format)}
              /\ threads' = [threads EXCEPT ![t].pc = "saved",
                                            ![t].saved = figures'[Len(figures')]]
         ELSE /\ threads' = [threads EXCEPT ![t].pc = "done"]
              /\ UNCHANGED <<files, figures>>
    /\ UNCHANGED <<diagram, dir_exists, result>>

\* plt.close(): closes the current figure
CloseFigure(t) ==
    /\ threads[t].pc = "saved"
    /\ figures' = Close(figures)
    /\ threads' = [threads EXCEPT
           ![t].pc = "done",
           ![t].closed = IF figures = <<>> THEN 0 ELSE figures[Len(figures)]]
    /\ UNCHANGED <<diagram, dir_exists, files, result>>

NextThreads ==
    \E t \in DOMAIN threads :
        \/ Enter(t)
        \/ OpenFigure(t)
        \/ DrawOnAx(t)
        \/ SaveFigure(t)
        \/ CloseFigure(t)

SpecThreads == InitThreads /\ [][NextThreads]_vars

(***************************************************************************)
(* The style specification: the colour resolver of a level applied to type *)
(* strings inside and outside the level's table.                           *)
(***************************************************************************)
TypeStrings ==
    DOMAIN ContainerColors \cup DOMAIN ComponentColors
        \cup {"Entity", "Class", "Interface", "Abstract", "Other", "database", ""}

InitStyle ==
    /\ diagram \in {NewDiagram(lv, Title) : lv \in {"container", "component", "code"}}
    /\ dir_exists = FALSE
    /\ files = {}
    /\ figures = <<>>
    /\ result = [op |-> "__init__", exc |-> "ok", msg |-> <<>>, value |-> NoValue]
    /\ threads = <<>>

\* self._get_container_color(t), self._get_component_color(t) or
\* self._get_class_color(t, is_abstract, is_interface)
ResolveStyle ==
    /\ \E type \in TypeStrings, is_abstract \in BOOLEAN, is_interface \in BOOLEAN :
         /\ diagram.level # "code" => (~is_abstract /\ ~is_interface)
         /\ result' = [op |-> "_get_color", exc |-> "ok", msg |-> <<>>,
                value |-> [type |-> type, is_abstract |-> is_abstract,
                           is_interface |-> is_interface,
                           colors |->
                             CASE diagram.level = "container" ->
                                    _get_container_color(type)
                               [] diagram.level = "component" ->
                                    _get_component_color(type)
                               [] diagram.level = "code" ->
                                    _get_class_color(type, is_abstract,
                                                     is_interface)]]
    /\ UNCHANGED <<diagram, dir_exists, files, figures, threads>>

SpecStyle == InitStyle /\ [][ResolveStyle]_vars

(***************************************************************************)
(* The construction specification: the constructor of each level called    *)
(* with an output filename, a first entity registered, generate called.    *)
(* A filename is the sequence of its characters.                           *)
(***************************************************************************)
MaxName == 2

\* the characters the filenames are made of
FilenameChars == {"a", "_", "1", "/", ".", "-"}

FilenameArgs == SeqsUpTo(FilenameChars, MaxName)

\* str.isidentifier(): a letter or underscore, then letters, digits, underscores
isidentifier(s) ==
    /\ s # <<>>
    /\ s[1] \in {"a", "_"}
    /\ \A i \in DOMAIN s : s[i] \in {"a", "_", "1"}

\* faulty variant of _validate_filename: the check is left out
_validate_filenameSkipped(filename) == TRUE

\* `if not filename.isidentifier(): raise ValueError(...)`: TRUE when it returns
_validate_filename(filename) == isidentifier(filename)

\* Cls(title, output_filename)
__init__(lv, title, output_filename) ==
    IF _validate_filename(output_filename)
    THEN [exc |-> "ok", msg |-> <<>>,
          self |-> [NewDiagram(lv, title) EXCEPT !.output_filename = output_filename]]
    ELSE [exc |-> "ValueError", msg |-> <<"Output filename must be a valid identifier">>,
          self |-> NoValue]

\* no diagram constructed yet
InitConstruct ==
    /\ diagram = NoValue
    /\ dir_exists = FALSE
    /\ files = {}
    /\ figures = <<>>
    /\ result = [op |-> "none", exc |-> "ok", msg |-> <<>>, value |-> NoValue]
    /\ threads = <<>>

Construct ==
    /\ diagram = NoValue
    /\ \E lv \in Levels, output_filename \in FilenameArgs :
         \E r \in {__init__(lv, Title, output_filename)} :
            /\ diagram' = r.self
            /\ result' = [op |-> "__init__", exc |-> r.exc, msg |-> r.msg,
                          value |-> [output_filename |-> output_filename]]
    /\ UNCHANGED <<dir_exists, files, figures, threads>>

\* the first entity of a constructed diagram
AddFirst ==
    /\ diagram # NoValue
    /\ NumEntities(diagram) = 0
    /\ \E key \in EntityCollections(diagram.level) :
         Call("add", AddMinimal(diagram, key, "a"))

GenerateConstructed == diagram # NoValue /\ Generate

NextConstruct == Construct \/ AddFirst \/ GenerateConstructed

SpecConstruct == InitConstruct /\ [][NextConstruct]_vars

(***************************************************************************)
(* The context specification: context diagrams whose external systems and  *)
(* relationships are named after an entity or after the subject system     *)
(* itself, then generate.                                                  *)
(***************************************************************************)
MaxExternal == 2
MaxRelations == 2

ContextNames == {"a", Title}

ContextRelationArgs ==
    [source : ContextNames, target : ContextNames, bidirectional : BOOLEAN]

RECURSIVE Relate(_, _)
Relate(d, rels) ==
    IF rels = <<>> THEN d
    ELSE Relate(add_relationship1(d, Head(rels).source, Head(rels).target, "uses",
                                  Head(rels).bidirectional).self,
                Tail(rels))

ContextDiagrams ==
    {Relate(Populate(NewDiagram("context", Title), "external_systems", names), rels) :
        names \in SeqsUpTo(ContextNames, MaxExternal),
        rels \in SeqsUpTo(ContextRelationArgs, MaxRelations)}

InitContext ==
    /\ diagram \in ContextDiagrams
    /\ dir_exists = FALSE
    /\ files = {}
    /\ figures = <<>>
    /\ result = [op |-> "__init__", exc |-> "ok", msg |-> <<>>, value |-> NoValue]
    /\ threads = <<>>

SpecContext == InitContext /\ [][Generate]_vars

(***************************************************************************)
(* The namesake specification: container, component and code diagrams      *)
(* whose entities may share a name, with edges between the names, then     *)
(* generate.                                                               *)
(***************************************************************************)
MaxNamesakes == 3
MaxLinks == 2

LinkArgs == [source : LayoutNames, target : LayoutNames]

AddLink(d, link) ==
    CASE d.level = "container" ->
           add_relationship2(d, link.source, link.target, "calls", None, FALSE)
      [] d.level = "component" ->
           add_relationship3(d, link.source, link.target, "calls", None, FALSE, FALSE)
      [] d.level = "code" ->
           add_association(d, link.source, link.target, "has", None, FALSE, FALSE)

RECURSIVE Link(_, _)
Link(d, links) ==
    IF links = <<>> THEN d ELSE Link(AddLink(d, Head(links)).self, Tail(links))

NamesakeDiagrams ==
    {Link(Populate(NewDiagram(lv, Title),
                   CHOOSE key \in EntityCollections(lv) : TRUE, names), links) :
        lv \in Levels \ {"context"},
        names \in SeqsUpTo(LayoutNames, MaxNamesakes),
        links \in SeqsUpTo(LinkArgs, MaxLinks)}

InitNamesakes ==
    /\ diagram \in NamesakeDiagrams
    /\ dir_exists = FALSE
    /\ files = {}
    /\ figures = <<>>
    /\ result = [op |-> "__init__", exc |-> "ok", msg |-> <<>>, value |-> NoValue]
    /\ threads = <<>>

SpecNamesakes == InitNamesakes /\ [][Generate]_vars

(***************************************************************************)
(* Vocabulary of the properties.                                           *)
(***************************************************************************)
IsPrefix(s, t) == Len(s) <= Len(t) /\ SubSeq(t, 1, Len(s)) = s

AddOps ==
    {"add_user", "add_external_system", "add_relationship", "add_container",
     "add_component", "add_class", "add_association", "add_inheritance",
     "add_interface_implementation"}

\* the names of the entities of the level's layout map
EntityNames(d) ==
    CASE d.level = "context" -> NamesOf(d.users) \cup NamesOf(d.external_systems)
      [] d.level = "container" -> NamesOf(d.containers)
      [] d.level = "component" -> NamesOf(d.components)
      [] d.level = "code" -> NamesOf(d.classes)

\* the edges of a diagram, in drawing order, by their two endpoint names
EdgesOf(d) ==
    IF d.level = "code"
    THEN [i \in DOMAIN CodeEdges(d) |->
            [source |-> CodeEdges(d)[i].source, target |-> CodeEdges(d)[i].target]]
    ELSE [i \in DOMAIN d.relationships |->
            [source |-> d.relationships[i].source,
             target |-> d.relationships[i].target]]

IsDangling(d, e) == e.source \notin EntityNames(d) \/ e.target \notin EntityNames(d)

HasDangling(d) == \E i \in DOMAIN EdgesOf(d) : IsDangling(d, EdgesOf(d)[i])

NoEntities(d) == NumEntities(d) = 0

GenerateDone == result.op = "generate" /\ result.exc = "ok"

FormatRejected(r) ==
    /\ r.op = "generate"
    /\ r.exc = "ValueError"
    /\ r.msg[1] = "Unsupported output format: "

(***************************************************************************)
(* C1  Round trip: from_json(d.to_json()) on a fresh diagram of the same   *)
(* level succeeds and leaves it with collections equal to d's, entry by    *)
(* entry and in the same order.                                            *)
(***************************************************************************)
RoundTripLaw ==
    result.op = "round_trip" =>
        /\ result.exc = "ok"
        /\ result.value.level = diagram.level
        /\ \A k \in Collections(diagram.level) : result.value[k] = diagram[k]

\* a code diagram with both kinds of class and an unlabelled association went round
RoundTripWitness ==
    /\ result.op = "round_trip"
    /\ diagram.level = "code"
    /\ Len(diagram.classes) = 2
    /\ diagram.classes[1].description = None
    /\ diagram.classes[2].attributes # <<>>
    /\ Len(diagram.associations) >= 1
    /\ diagram.associations[1].label = None

(***************************************************************************)
(* C2  A dangling edge is accepted by the add-operation, is listed by      *)
(* to_json, and never makes generate raise: a generate call on a diagram   *)
(* with a dangling edge ends without exception, or with the exception of   *)
(* an unsupported format, of an empty entity collection or of a failed     *)
(* save.                                                                   *)
(***************************************************************************)
DanglingAccepted(d) ==
    CASE d.level = "context" ->
           \A a \in Relationship1Args :
               (Truthy(a.source) /\ Truthy(a.target) /\ Truthy(a.label)) =>
                   add_relationship1(d, a.source, a.target, a.label,
                                     a.bidirectional).exc = "ok"
      [] d.level = "container" ->
           \A a \in Relationship2Args :
               (Truthy(a.source) /\ Truthy(a.target) /\ Truthy(a.label)) =>
                   add_relationship2(d, a.source, a.target, a.label, a.protocol,
                                     a.bidirectional).exc = "ok"
      [] d.level = "component" ->
           \A a \in Relationship3Args :
               (Truthy(a.source) /\ Truthy(a.target) /\ Truthy(a.label)) =>
                   add_relationship3(d, a.source, a.target, a.label, a.protocol,
                                     a.bidirectional, a.async).exc = "ok"
      [] d.level = "code" ->
           /\ \A a \in AssociationArgs :
                (Truthy(a.class1) /\ Truthy(a.class2)) =>
                    add_association(d, a.class1, a.class2, a.label,
                        a.multiplicity, a.aggregation, a.composition).exc = "ok"
           /\ \A a \in InheritanceArgs :
                (Truthy(a.subclass) /\ Truthy(a.superclass)) =>
                    add_inheritance(d, a.subclass, a.superclass).exc = "ok"
           /\ \A a \in InterfaceArgs :
                (Truthy(a.implementor) /\ Truthy(a.interface)) =>
                    add_interface_implementation(d, a.implementor,
                                                 a.interface).exc = "ok"

DanglingTolerated ==
    /\ DanglingAccepted(diagram)
    /\ result.op = "to_json" =>
          \A k \in EdgeCollections(diagram.level) :
              /\ Len(result.value[k].value) = Len(diagram[k])
              /\ \A i \in DOMAIN diagram[k] :
                    result.value[k].value[i] = DumpDict(diagram[k][i])
    /\ (result.op = "generate" /\ HasDangling(diagram)) =>
          \/ result.exc \in {"ok", "OSError"}
          \/ FormatRejected(result)
          \/ result.exc = "ValueError" /\ NoEntities(diagram)

\* a component diagram with a dangling relationship was rendered
DanglingWitness ==
    /\ GenerateDone
    /\ diagram.level = "component"
    /\ HasDangling(diagram)
    /\ Len(diagram.components) >= 1

(***************************************************************************)
(* C3  At the container, component and code levels a finished generate has *)
(* drawn one connector for each edge whose two endpoints are keys of the   *)
(* layout map, in registration order and between the mapped positions, and *)
(* none for any other edge; the keys of the map are the entity names.      *)
(***************************************************************************)
ResolvedEdges(d, positions) ==
    SelectSeq(EdgesOf(d),
              LAMBDA e : e.source \in DOMAIN positions /\ e.target \in DOMAIN positions)

OneConnectorPerResolvedEdge ==
    (GenerateDone /\ diagram.level # "context") =>
        LET positions == result.value.layout.positions
            arrows == result.value.ax.arrows
            edges == ResolvedEdges(diagram, positions)
        IN /\ DOMAIN positions = EntityNames(diagram)
           /\ Len(arrows) = Len(edges)
           /\ Len(arrows) =
                Cardinality({i \in DOMAIN EdgesOf(diagram) :
                                ~IsDangling(diagram, EdgesOf(diagram)[i])})
           /\ \A i \in DOMAIN arrows :
                /\ arrows[i].xytext = positions[edges[i].source]
                /\ arrows[i].xy = positions[edges[i].target]

\* two relationships, one of them dangling, gave exactly one connector
OneConnectorWitness ==
    /\ GenerateDone
    /\ diagram.level = "component"
    /\ Len(diagram.components) = 2
    /\ Len(diagram.relationships) = 2
    /\ Cardinality({i \in 1..2 : IsDangling(diagram, EdgesOf(diagram)[i])}) = 1
    /\ Len(result.value.ax.arrows) = 1

(***************************************************************************)
(* C4  generate with a format outside {png, jpg, svg, pdf} raises the      *)
(* validation error before any drawing: the call creates no directory,     *)
(* opens no figure and writes no file, whatever the diagram holds.         *)
(***************************************************************************)
FormatCheckedFirst ==
    /\ \A output_format \in FormatArgs \ Formats : \A save_ok \in BOOLEAN :
          \E o \in {generate(diagram, output_format, save_ok)} :
              /\ o.exc = "ValueError"
              /\ o.msg = <<"Unsupported output format: ", output_format>>
              /\ ~o.mkdir /\ ~o.opened /\ ~o.saved
    /\ FormatRejected(result') => UNCHANGED <<dir_exists, files, figures, diagram>>

UnsupportedFormatDrawsNothing == [][FormatCheckedFirst]_vars

\* a populated diagram was asked for a bmp and nothing exists on disk
UnsupportedFormatWitness ==
    /\ FormatRejected(result)
    /\ result.msg[2] = "bmp"
    /\ NumEntities(diagram) > 0
    /\ ~dir_exists
    /\ files = {}
    /\ figures = <<>>

(***************************************************************************)
(* C5  An add-operation called with an empty or absent value for a string  *)
(* field it requires raises the validation error, and an add-operation     *)
(* that raised it has left every collection as it was.                     *)
(***************************************************************************)
Rejects(outcome, d) == outcome.exc = "ValueError" /\ outcome.self = d

InvalidAddsRejected(d) ==
    CASE d.level = "context" ->
           /\ \A a \in UserArgs : Falsy(a.name) =>
                Rejects(add_user(d, a.name, a.description, a.role), d)
           /\ \A a \in ExternalSystemArgs : Falsy(a.name) =>
                Rejects(add_external_system(d, a.name, a.description, a.protocol), d)
           /\ \A a \in Relationship1Args :
                (Falsy(a.source) \/ Falsy(a.target) \/ Falsy(a.label)) =>
                Rejects(add_relationship1(d, a.source, a.target, a.label,
                                          a.bidirectional), d)
      [] d.level = "container" ->
           /\ \A a \in ContainerArgs : (Falsy(a.name) \/ Falsy(a.technology)) =>
                Rejects(add_container(d, a.name, a.technology, a.description,
                                      a.type, a.db_schema), d)
           /\ \A a \in Relationship2Args :
                (Falsy(a.source) \/ Falsy(a.target) \/ Falsy(a.label)) =>
                Rejects(add_relationship2(d, a.source, a.target, a.label,
                                          a.protocol, a.bidirectional), d)
      [] d.level = "component" ->
           /\ \A a \in ComponentArgs : (Falsy(a.name) \/ Falsy(a.technology)) =>
                Rejects(add_component(d, a.name, a.technology, a.description,
                                      a.type, a.interface), d)
           /\ \A a \in Relationship3Args :
                (Falsy(a.source) \/ Falsy(a.target) \/ Falsy(a.label)) =>
                Rejects(add_relationship3(d, a.source, a.target, a.label,
                                          a.protocol, a.bidirectional, a.async), d)
      [] d.level = "code" ->
           /\ \A a \in ClassArgs : Falsy(a.name) =>
                Rejects(add_class(d, a.name, a.description, a.attributes,
                        a.methods, a.type, a.is_abstract, a.is_interface), d)
           /\ \A a \in AssociationArgs : (Falsy(a.class1) \/ Falsy(a.class2)) =>
                Rejects(add_association(d, a.class1, a.class2, a.label,
                        a.multiplicity, a.aggregation, a.composition), d)
           /\ \A a \in InheritanceArgs :
                (Falsy(a.subclass) \/ Falsy(a.superclass)) =>
                Rejects(add_inheritance(d, a.subclass, a.superclass), d)
           /\ \A a \in InterfaceArgs :
                (Falsy(a.implementor) \/ Falsy(a.interface)) =>
                Rejects(add_interface_implementation(d, a.implementor,
                                                     a.interface), d)

FailedAddIsNoOp ==
    /\ InvalidAddsRejected(diagram)
    /\ (result'.op \in AddOps /\ result'.exc = "ValueError") => diagram' = diagram

RejectedAddChangesNothing == [][FailedAddIsNoOp]_vars

\* an add_relationship without label was rejected on a populated diagram
RejectedAddWitness ==
    /\ result.op = "add_relationship"
    /\ result.exc = "ValueError"
    /\ result.msg = <<"Source, target and label cannot be empty">>
    /\ NumEntities(diagram) > 0
    /\ NumEdges(diagram) > 0

(***************************************************************************)
(* C6  Registration is append-only and order-preserving: over every step   *)
(* each collection is a prefix of its next value, and a successful         *)
(* add-operation grows exactly one collection by exactly one entry, at     *)
(* the end.                                                                *)
(***************************************************************************)
GrewByOne(d, e) ==
    \E k \in Collections(d.level) :
        /\ Len(e[k]) = Len(d[k]) + 1
        /\ \A j \in Collections(d.level) \ {k} : e[j] = d[j]

AppendStep ==
    /\ diagram'.level = diagram.level
    /\ \A k \in Collections(diagram.level) : IsPrefix(diagram[k], diagram'[k])
    /\ (result'.op \in AddOps /\ result'.exc = "ok") => GrewByOne(diagram, diagram')

AppendOnly == [][AppendStep]_vars

\* two different entities are registered, in the order of their calls
AppendOnlyWitness ==
    /\ result.op = "add_component"
    /\ result.exc = "ok"
    /\ Len(diagram.components) = 2
    /\ diagram.components[1].name = "b"
    /\ diagram.components[2].name = "a"

(***************************************************************************)
(* C7  In every reachable state the names of the entities of one           *)
(* collection are pairwise distinct.                                       *)
(***************************************************************************)
UniqueNames ==
    \A k \in EntityCollections(diagram.level) :
        \A i, j \in DOMAIN diagram[k] :
            i # j => diagram[k][i].name # diagram[k][j].name

(***************************************************************************)
(* C8  As claimed: every registered relationship, code-level associations  *)
(* included, has a non-empty source, target and label.                     *)
(***************************************************************************)
EndpointsGiven(d) ==
    CASE d.level = "code" ->
           /\ \A i \in DOMAIN d.associations :
                Truthy(d.associations[i].class1) /\ Truthy(d.associations[i].class2)
           /\ \A i \in DOMAIN d.inheritances :
                Truthy(d.inheritances[i].subclass)
                /\ Truthy(d.inheritances[i].superclass)
           /\ \A i \in DOMAIN d.interfaces :
                Truthy(d.interfaces[i].implementor)
                /\ Truthy(d.interfaces[i].interface)
      [] OTHER ->
           \A i \in DOMAIN d.relationships :
                Truthy(d.relationships[i].source) /\ Truthy(d.relationships[i].target)

EveryEdgeLabelled ==
    /\ EndpointsGiven(diagram)
    /\ diagram.level = "code" =>
          \A i \in DOMAIN diagram.associations : Truthy(diagram.associations[i].label)
    /\ diagram.level # "code" =>
          \A i \in DOMAIN diagram.relationships : Truthy(diagram.relationships[i].label)

(***************************************************************************)
(* C8, amended  Every relationship of a context, container or component    *)
(* diagram has a non-empty source, target and label; every association,    *)
(* inheritance and interface implementation of a code diagram has two      *)
(* non-empty endpoints, and the label of an association may be absent.     *)
(***************************************************************************)
EveryRelationshipLabelled ==
    /\ EndpointsGiven(diagram)
    /\ diagram.level # "code" =>
          \A i \in DOMAIN diagram.relationships : Truthy(diagram.relationships[i].label)

\* an association without label stands beside a labelled one
UnlabelledAssociationWitness ==
    /\ diagram.level = "code"
    /\ result.op = "add_association"
    /\ result.exc = "ok"
    /\ Len(diagram.associations) = 2
    /\ diagram.associations[1].label # None
    /\ diagram.associations[2].label = None

(***************************************************************************)
(* C9  generate on a container, component or code diagram without entity   *)
(* raises the validation error of an unsupported format's kind and touches *)
(* neither directory, figure nor file; generate on a context diagram       *)
(* without user and external system is not rejected for being empty.       *)
(***************************************************************************)
EmptyRejected(r) ==
    /\ r.op = "generate"
    /\ r.exc = "ValueError"
    /\ r.msg[1] # "Unsupported output format: "

EmptyDiagramStep ==
    /\ (result'.op = "generate" /\ NoEntities(diagram) /\ diagram.level # "context") =>
          /\ result'.exc = "ValueError"
          /\ UNCHANGED <<dir_exists, files, figures, diagram>>
    /\ (result'.op = "generate" /\ diagram.level = "context") => ~EmptyRejected(result')
    /\ (NoEntities(diagram) /\ diagram.level = "context") =>
          \E o \in {generate(diagram, "png", TRUE)} :
              o.exc = "ok" /\ o.saved /\ o.closed

EmptyCollectionRejected == [][EmptyDiagramStep]_vars

\* a container diagram holding only a dangling relationship was refused a png
EmptyCollectionWitness ==
    /\ result.op = "generate"
    /\ result.exc = "ValueError"
    /\ result.msg = <<"No containers added to diagram">>
    /\ diagram.level = "container"
    /\ Len(diagram.relationships) > 0
    /\ ~dir_exists /\ files = {} /\ figures = <<>>

(***************************************************************************)
(* C10  In the circular layout of n >= 1 entities the step times n is      *)
(* exactly 360 and the i-th entity, counting from 0, is laid out at        *)
(* i * step on the circle; no generate call ends in a division by zero,    *)
(* with n = 0 included.                                                    *)
(***************************************************************************)
Circular == {"container", "component"}

BoxesOf(texts, colours) == SelectSeq(texts, LAMBDA t : t.kind.box = colours)

\* (i - k/2) * 10 / big for the i-th (from 1) member of a group of k
GroupOffset(i, k, big) == Rat(10 * (2 * (i - 1) - k), 2 * big)

OnTheLine(boxes, x, k, big) ==
    /\ Len(boxes) = k
    /\ \A i \in 1..k : boxes[i].at = [x |-> <<x, 1>>, y |-> GroupOffset(i, k, big)]
    /\ \A i, j \in 1..k : i # j => boxes[i].at.y # boxes[j].at.y

ContextLayout ==
    (GenerateDone /\ diagram.level = "context") =>
        LET n == Len(diagram.users)
            m == Len(diagram.external_systems)
            big == IF n >= m /\ n >= 1 THEN n ELSE IF m >= 1 THEN m ELSE 1
            texts == result.value.ax.texts
        IN /\ result.value.layout.vertical_spacing = Rat(10, big)
           /\ texts[1].at = [x |-> <<0, 1>>, y |-> <<0, 1>>]
           /\ texts[1].lines = <<<<diagram.system_name>>>>
           /\ OnTheLine(BoxesOf(texts, <<"#e0f7fa", "blue">>), -5, n, big)
           /\ OnTheLine(BoxesOf(texts, <<"#e8f5e9", "green">>), 5, m, big)

\* three users and two external systems were drawn
ContextLayoutWitness ==
    /\ GenerateDone
    /\ diagram.level = "context"
    /\ Len(diagram.users) = 3
    /\ Len(diagram.external_systems) = 2
    /\ Len(result.value.ax.texts) = 6

MissingKeyIsValidationError ==
    result.op = "from_json" => result.exc \in {"ok", "ValueError"}

(***************************************************************************)
(* C14  from_json keeps of every entry the fields of its kind and nothing  *)
(* else: a field the entry gives has the given value, a field it leaves    *)
(* out has its default (type Application / Service / Class, the flags      *)
(* false, attributes and methods empty, every other optional field None),  *)
(* and a later to_json writes the title, the collections and these fields  *)
(* only.                                                                   *)
(***************************************************************************)
FieldsOf(lv, key) ==
    CASE key = "users" -> {"name", "description", "role"}
      [] key = "external_systems" -> {"name", "description", "protocol"}
      [] key = "containers" ->
           {"name", "technology", "description", "type", "db_schema"}
      [] key = "components" ->
           {"name", "technology", "description", "type", "interface"}
      [] key = "classes" ->
           {"name", "description", "attributes", "methods", "type",
            "is_abstract", "is_interface"}
      [] key = "associations" ->
           {"class1", "class2", "label", "multiplicity", "aggregation",
            "composition"}
      [] key = "inheritances" -> {"subclass", "superclass"}
      [] key = "interfaces" -> {"implementor", "interface"}
      [] key = "relationships" ->
           {"source", "target", "label", "bidirectional"}
           \cup (IF lv = "context" THEN {} ELSE {"protocol"})
           \cup (IF lv = "component" THEN {"async"} ELSE {})

DefaultOf(key, field) ==
    CASE field = "type" /\ key = "containers" -> "Application"
      [] field = "type" /\ key = "components" -> "Service"
      [] field = "type" /\ key = "classes" -> "Class"
      [] field \in {"bidirectional", "async", "aggregation", "composition",
                    "is_abstract", "is_interface"} -> FALSE
      [] field \in {"attributes", "methods"} -> <<>>
      [] OTHER -> None

\* the entries from_json added to d are the entries of doc, field by field
LoadedAsGiven(d, doc) ==
    \E r \in {from_json(d, doc)} :
        /\ \A key \in Collections(d.level) :
             /\ IsPrefix(d[key], r.self[key])
             /\ \A i \in 1..(Len(r.self[key]) - Len(d[key])) :
                  LET entry == r.self[key][Len(d[key]) + i]
                      obj == doc[key].value[i].value
                  IN /\ DOMAIN entry = FieldsOf(d.level, key)
                     /\ \A f \in DOMAIN entry :
                          entry[f] = IF f \in DOMAIN obj THEN Load(obj[f])
                                     ELSE DefaultOf(key, f)
        /\ \E out \in {to_json(r.self)} :
             /\ DOMAIN out = {TitleKey(d.level)} \cup Collections(d.level)
             /\ \A key \in Collections(d.level) :
                  \A i \in DOMAIN out[key].value :
                      DOMAIN out[key].value[i].value = FieldsOf(d.level, key)

UnknownIgnoredDefaultsFilled ==
    \A doc \in Docs(diagram.level) : LoadedAsGiven(diagram, doc)

\* a document without optional keys and with unknown keys was loaded
DefaultsWitness ==
    /\ result.op = "from_json"
    /\ result.exc = "ok"
    /\ diagram.level = "container"
    /\ diagram.system_name = DocTitle
    /\ Len(diagram.containers) = 2
    /\ diagram.containers[2] =
          [name |-> "a", technology |-> "tech", description |-> None,
           type |-> "Application", db_schema |-> None]
    /\ Len(diagram.relationships) = 1
    /\ diagram.relationships[1].protocol = None
    /\ ~diagram.relationships[1].bidirectional

(***************************************************************************)
(* C15  generate and to_json only read the diagram: over a step of either  *)
(* call, returning or raising, the title, the output filename and every    *)
(* collection keep their values, and the diagram has the attributes of     *)
(* its constructor and no other (no layout map is stored).                 *)
(***************************************************************************)
AttributesOf(lv) == {"level", TitleKey(lv), "output_filename"} \cup Collections(lv)

ReadOnlyStep ==
    result'.op \in {"generate", "to_json"} =>
        /\ diagram' = diagram
        /\ DOMAIN diagram' = AttributesOf(diagram.level)

GenerateAndToJsonReadOnly == [][ReadOnlyStep]_vars

\* a populated diagram was rendered, and the layout is in the return value only
ReadOnlyWitness ==
    /\ GenerateDone
    /\ NumEntities(diagram) = 2
    /\ NumEdges(diagram) = 2
    /\ DOMAIN result.value.layout.positions # {}
    /\ "positions" \notin DOMAIN diagram

(***************************************************************************)
(* C16  As claimed: after any sequence of generate calls, successful or    *)
(* failed, no figure opened by them is still open.                         *)
(***************************************************************************)
NoFigureLeftOpen == figures = <<>>

(***************************************************************************)
(* C17: in every interleaving of two generate() calls on two diagram       *)
(* instances with different output paths, each call saves the figure it    *)
(* created and closes only its own figure.                                 *)
(***************************************************************************)
EachCallUsesItsOwnFigure ==
    \A t \in DOMAIN threads :
        /\ threads[t].saved # 0 => threads[t].saved = threads[t].fig
        /\ threads[t].closed # 0 => threads[t].closed = threads[t].fig

(***************************************************************************)
(* C18: the colour resolvers return a pair for every type string; a type   *)
(* in the level's table gets its fixed pair, every other type the level's  *)
(* neutral default pair.  As stated, the type alone decides the pair; at   *)
(* code level it does not: is_interface, then is_abstract, come first.     *)
(***************************************************************************)
\* the tables and the default pairs, as the claim reads them
TypeTable(lv) ==
    CASE lv = "container" ->
           [Application |-> <<"#e3f2fd", "#1565c0">>,
            Database |-> <<"#e8f5e9", "#2e7d32">>,
            Queue |-> <<"#fff3e0", "#ef6c00">>,
            Browser |-> <<"#f3e5f5", "#7b1fa2">>,
            Mobile |-> <<"#e0f7fa", "#00838f">>,
            API |-> <<"#ffebee", "#c62828">>]
      [] lv = "component" ->
           [Service |-> <<"#e3f2fd", "#1565c0">>,
            Controller |-> <<"#e8f5e9", "#2e7d32">>,
            Repository |-> <<"#fff3e0", "#ef6c00">>,
            Client |-> <<"#f3e5f5", "#7b1fa2">>,
            Utility |-> <<"#e0f7fa", "#00838f">>,
            Gateway |-> <<"#ffebee", "#c62828">>]
      [] lv = "code" ->
           [Entity |-> <<"#e8f5e9", "#2e7d32">>,
            Service |-> <<"#fff3e0", "#ef6c00">>,
            Repository |-> <<"#fce4ec", "#c2185b">>]

NeutralDefault(lv) ==
    IF lv = "code" THEN <<"#ffffff", "#424242">> ELSE <<"#f5f5f5", "#424242">>

ByTypeAlone(lv, type) ==
    IF type \in DOMAIN TypeTable(lv) THEN TypeTable(lv)[type]
    ELSE NeutralDefault(lv)

IsPair(colors) ==
    /\ DOMAIN colors = 1..2
    /\ \A i \in 1..2 : colors[i] # None /\ colors[i] # ""

\* the claim as stated: the type string alone decides the pair
TypeAloneDecidesColors ==
    result.op = "_get_color" =>
        result.value.colors = ByTypeAlone(diagram.level, result.value.type)

\* the claim as amended: total, and decided by the type string unless a
\* class is flagged as interface or as abstract
StyleResolverTotal ==
    result.op = "_get_color" =>
        /\ result.exc = "ok"
        /\ IsPair(result.value.colors)
        /\ result.value.colors =
             IF result.value.is_interface THEN <<"#f5f5f5", "#7b1fa2">>
             ELSE IF result.value.is_abstract THEN <<"#e3f2fd", "#0d47a1">>
             ELSE ByTypeAlone(diagram.level, result.value.type)

\* an abstract class of a type in the table gets the pair of abstract classes
StyleResolverWitness ==
    /\ result.op = "_get_color"
    /\ diagram.level = "code"
    /\ result.value.type = "Entity"
    /\ result.value.is_abstract
    /\ ~result.value.is_interface
    /\ result.value.colors = <<"#e3f2fd", "#0d47a1">>
    /\ result.value.colors # ByTypeAlone("code", "Entity")

(***************************************************************************)
(* C19: at code level the kind of an edge determines its (line style,      *)
(* arrow head, colour) triple, and an aggregation and a composition are    *)
(* drawn with two different arrow heads, not only two different colours.   *)
(***************************************************************************)
ArrowsDrawn ==
    IF GenerateDone /\ diagram.level = "code"
    THEN {result.value.ax.arrows[i] : i \in DOMAIN result.value.ax.arrows}
    ELSE {}

AggregationAndCompositionHeadsDiffer ==
    /\ \A a \in ArrowsDrawn, b \in ArrowsDrawn :
          a.rel_type = b.rel_type =>
              /\ a.linestyle = b.linestyle
              /\ a.arrowstyle = b.arrowstyle
              /\ a.color = b.color
    /\ \A a \in ArrowsDrawn, b \in ArrowsDrawn :
          (a.rel_type = "aggregation" /\ b.rel_type = "composition") =>
              a.arrowstyle # b.arrowstyle

(***************************************************************************)
(* C20: at every level the label of a drawn connector is at the geometric  *)
(* midpoint of the positions of its two endpoints, whatever the direction  *)
(* of the relationship; at context level the endpoints are the user or the *)
(* external system at (+-5, y) and the subject system at the origin.       *)
(***************************************************************************)
TextsDrawn == result.value.ax.texts

\* the texts of the class boxes come first at code level, the labels after them
RECURSIVE NumClassTexts(_)
NumClassTexts(classes) ==
    IF classes = <<>> THEN 0
    ELSE Len(ClassTexts(Head(classes))) + NumClassTexts(Tail(classes))

IsConnectorLabel(i) ==
    CASE diagram.level = "context" -> TextsDrawn[i].kind.box = <<"none", "none">>
      [] diagram.level = "code" -> i > NumClassTexts(diagram.classes)
      [] OTHER -> TextsDrawn[i].kind.box = <<"white", "none">>

\* the midpoint of a position and the origin
HalfWay(pos) ==
    [x |-> RatMul(pos.x, Rat(1, 2)), y |-> RatMul(pos.y, Rat(1, 2))]

LabelsAtMidpoint ==
    GenerateDone =>
        \A i \in DOMAIN TextsDrawn :
            IsConnectorLabel(i) =>
                IF diagram.level = "context"
                THEN \* the label follows the box of its user or external system
                     /\ i > 1
                     /\ TextsDrawn[i].at = HalfWay(TextsDrawn[i - 1].at)
                ELSE \E j \in DOMAIN result.value.ax.arrows :
                        TextsDrawn[i].at =
                            MidPoint(result.value.ax.arrows[j].xytext,
                                     result.value.ax.arrows[j].xy)

(***************************************************************************)
(* C21: at context level a finished generate has drawn a connector for     *)
(* exactly the registered relationships whose source and target both name  *)
(* a positioned entity (a user, an external system or the subject system); *)
(* an entity that takes part in no relationship gets no connector.         *)
(***************************************************************************)
PositionedNames(d) ==
    {d.users[i].name : i \in DOMAIN d.users}
        \cup {d.external_systems[i].name : i \in DOMAIN d.external_systems}
        \cup {d.system_name}

ConnectorsAreTheRelationships ==
    (GenerateDone /\ diagram.level = "context") =>
        /\ Len(result.value.ax.arrows) =
             Cardinality({i \in DOMAIN diagram.relationships :
                 /\ diagram.relationships[i].source \in PositionedNames(diagram)
                 /\ diagram.relationships[i].target \in PositionedNames(diagram)})
        /\ \A j \in DOMAIN result.value.ax.arrows :
             \E i \in DOMAIN diagram.relationships :
                result.value.ax.arrows[j].of \in
                    {diagram.relationships[i].source, diagram.relationships[i].target}

(***************************************************************************)
(* C22: the text block of every drawn entity has one line per present      *)
(* field; an entity registered with a non-empty description always shows   *)
(* it, also a user or an external system of the context level.             *)
(***************************************************************************)
EntitiesOf(d) ==
    UNION {{d[key][i] : i \in DOMAIN d[key]} : key \in EntityCollections(d.level)}

\* some drawn text holds the line
ShowsLine(line) ==
    \E i \in DOMAIN result.value.ax.texts :
        \E k \in DOMAIN result.value.ax.texts[i].lines :
            result.value.ax.texts[i].lines[k] = line

DescriptionAlwaysShown ==
    GenerateDone =>
        \A e \in EntitiesOf(diagram) :
            /\ ShowsLine(<<e.name>>)
            /\ Truthy(e.description) => ShowsLine(<<e.description>>)

(***************************************************************************)
(* C23: a diagram is constructed only with an output filename that is a    *)
(* plain identifier; the constructor fails with the validation error for   *)
(* any other filename, so every path generate returns or writes is         *)
(* diagrams_output/<identifier>.<format>, format in {png, jpg, svg, pdf}.  *)
(***************************************************************************)
\* the example characters of the claim: none of them occurs in an identifier
HasPathCharacter(s) == \E i \in DOMAIN s : s[i] \in {"/", ".", "-"}

PlainName(s) ==
    /\ Len(s) >= 1
    /\ ~HasPathCharacter(s)
    /\ s[1] # "1"

WellFormedPath(path) ==
    /\ path.dir = "diagrams_output"
    /\ PlainName(path.name)
    /\ path.ext \in {"png", "jpg", "svg", "pdf"}

OnlyIdentifierFilenames ==
    /\ result.op = "__init__" =>
          /\ result.exc = "ok" <=> PlainName(result.value.output_filename)
          /\ result.exc # "ok" =>
                /\ result.exc = "ValueError"
                /\ diagram = NoValue
    /\ diagram # NoValue => PlainName(diagram.output_filename)
    /\ GenerateDone => WellFormedPath(result.value.path)
    /\ \A path \in files : WellFormedPath(path)

\* a diagram constructed as Cls("S", "a1") has written diagrams_output/a1.png
IdentifierFilenameWitness ==
    /\ GenerateDone
    /\ diagram.output_filename = <<"a", "1">>
    /\ result.value.path = [dir |-> "diagrams_output", name |-> <<"a", "1">>,
                            ext |-> "png"]
    /\ result.value.path \in files

(***************************************************************************)
(* C24: from_json never clears the registry: it appends the entries of the *)
(* document after the ones the diagram holds, so loading a document twice  *)
(* leaves each of its entries twice; the title is overwritten only when    *)
(* the document has the title key.                                         *)
(***************************************************************************)
\* what a from_json call added to a collection
AddedTo(before, after, key) ==
    SubSeq(after[key], Len(before[key]) + 1, Len(after[key]))

AppendsTo(d, doc) ==
    \E r \in {from_json(d, doc)} :
        /\ \A key \in Collections(d.level) : IsPrefix(d[key], r.self[key])
        /\ TitleOf(r.self) = IF TitleKey(d.level) \in DOMAIN doc
                             THEN doc[TitleKey(d.level)].value
                             ELSE TitleOf(d)
        /\ r.exc = "ok" =>
             \E again \in {from_json(r.self, doc)} :
                /\ again.exc = "ok"
                /\ \A key \in Collections(d.level) :
                     /\ again.self[key] = r.self[key] \o AddedTo(d, r.self, key)
                     /\ (key \in DOMAIN doc /\ doc[key].value # <<>>) =>
                            again.self[key] # r.self[key]

FromJsonAppends == \A doc \in Docs(diagram.level) : AppendsTo(diagram, doc)

\* a document with one container and one relationship, loaded twice
LoadedTwiceWitness ==
    /\ result.op = "from_json"
    /\ result.exc = "ok"
    /\ diagram.level = "container"
    /\ diagram.system_name = DocTitle
    /\ Len(diagram.containers) = 2
    /\ diagram.containers[1] = diagram.containers[2]
    /\ Len(diagram.relationships) = 2
    /\ diagram.relationships[1] = diagram.relationships[2]

(***************************************************************************)
(* C25: from_json is not all-or-nothing: when it fails on a listed entry,  *)
(* the title taken from the document and every entry processed before the  *)
(* failing one stay registered: the diagram holds exactly the prefix of    *)
(* the document before the failing entry, appended to what it held.        *)
(***************************************************************************)
\* the collections in the order from_json reads them
LoadOrder(lv) ==
    CASE lv = "context" -> <<"users", "external_systems", "relationships">>
      [] lv = "container" -> <<"containers", "relationships">>
      [] lv = "component" -> <<"components", "relationships">>
      [] lv = "code" -> <<"classes", "associations", "inheritances", "interfaces">>

\* the document cut after the first n entries of the p-th collection
CutAt(doc, lv, p, n) ==
    LET order == LoadOrder(lv)
        later == {order[q] : q \in (p + 1)..Len(order)}
    IN [k \in DOMAIN doc \ later |->
           IF k = order[p] THEN [doc[k] EXCEPT !.value = SubSeq(@, 1, n)]
           ELSE doc[k]]

KeepsThePrefix(d, doc) ==
    \E r \in {from_json(d, doc)} :
        r.exc # "ok" =>
            /\ r.exc \in {"ValueError", "KeyError"}
            /\ TitleKey(d.level) \in DOMAIN doc =>
                  TitleOf(r.self) = doc[TitleKey(d.level)].value
            /\ \E p \in DOMAIN LoadOrder(d.level) :
                  /\ LoadOrder(d.level)[p] \in DOMAIN doc
                  /\ \E k \in DOMAIN doc[LoadOrder(d.level)[p]].value :
                        /\ from_json(d, CutAt(doc, d.level, p, k - 1)) =
                              [r EXCEPT !.exc = "ok", !.msg = <<>>]
                        /\ from_json(d, CutAt(doc, d.level, p, k)) = r

FromJsonKeepsThePrefix == \A doc \in Docs(diagram.level) : KeepsThePrefix(diagram, doc)

\* the second inheritance of the document lacks its superclass: title and first
\* inheritance are kept
KeptPrefixWitness ==
    /\ result.op = "from_json"
    /\ result.exc = "KeyError"
    /\ diagram.level = "code"
    /\ diagram.component_name = DocTitle
    /\ Len(diagram.inheritances) >= 1
    /\ diagram.inheritances[Len(diagram.inheritances)] =
          [subclass |-> "a", superclass |-> "b"]
    /\ diagram.interfaces = <<>>

(***************************************************************************)
(* C26: at context level the connector of an external system is never      *)
(* drawn reversed: the direction factor stays +1, because the relationship *)
(* _find_relationship(system_name, external) returns has the external      *)
(* system as its source only when it is bidirectional; a one-way           *)
(* relationship from an external system to the subject system is not found *)
(* and its label is not drawn.  As stated this holds for every registry;   *)
(* it fails for an external system that bears the subject system's name.   *)
(***************************************************************************)
\* the connector of the i-th external system of a diagram without users
ExternalArrow(i) == result.value.ax.arrows[i]

\* a relationship _find_relationship(system_name, name) matches
FoundFor(name) ==
    \E j \in DOMAIN diagram.relationships :
        LET rel == diagram.relationships[j]
        IN \/ rel.source = diagram.system_name /\ rel.target = name
           \/ rel.bidirectional /\ rel.source = name /\ rel.target = diagram.system_name

ContextGenerated ==
    GenerateDone /\ diagram.level = "context" /\ diagram.users = <<>>

Laid(d) == d[CHOOSE key \in EntityCollections(d.level) : TRUE]

\* the slot of the i-th of n entities (i from 1), as the level computes it
SlotOf(lv, i, n) ==
    CASE lv = "container" -> [radius |-> 6, angle |-> Rat(360 * (i - 1), n)]
      [] lv = "component" -> [radius |-> 5, angle |-> Rat(360 * (i - 1), n)]
      [] lv = "code" -> GridPosition(i - 1, CeilSqrt(n), CeilDiv(n, CeilSqrt(n)))

LastNamed(entities, name) ==
    CHOOSE i \in DOMAIN entities :
        entities[i].name = name /\ \A j \in (i + 1)..Len(entities) : entities[j].name # name

InBand(y) == y[2] > 0 /\ -5 * y[2] <= y[1] /\ y[1] < 5 * y[2]

OffsetsBounded ==
    (GenerateDone /\ diagram.level = "context") =>
        LET layout == result.value.layout
            n == Len(diagram.users)
            m == Len(diagram.external_systems)
        IN /\ \A i \in DOMAIN layout.users : InBand(layout.users[i].y)
           /\ \A i \in DOMAIN layout.external_systems :
                InBand(layout.external_systems[i].y)
           /\ (n >= 1 /\ n >= m) => layout.users[1].y = RatInt(-5)
           /\ (m >= 1 /\ m >= n) => layout.external_systems[1].y = RatInt(-5)
           /\ \A k \in DOMAIN result.value.ax.texts :
                result.value.ax.texts[k].kind.box \in
                    {<<"#e0f7fa", "blue">>, <<"#e8f5e9", "green">>} =>
                        InBand(result.value.ax.texts[k].at.y)

\* three users span the band from -5; the single external system stays inside
OffsetsBoundedWitness ==
    /\ GenerateDone
    /\ diagram.level = "context"
    /\ Len(diagram.users) = 3
    /\ Len(diagram.external_systems) = 1
    /\ result.value.layout.users[1].y = RatInt(-5)
    /\ result.value.layout.users[3].y = Rat(5, 3)
    /\ result.value.layout.external_systems[1].y = Rat(-5, 3)

(***************************************************************************)
(* C29: at component level a relationship flagged both bidirectional and   *)
(* async is drawn with the asynchronous style only, a dashed line with the *)
(* single-headed "-|>" arrow; the bidirectional flag decides the style     *)
(* only when async is false.                                               *)
(***************************************************************************)
\* the relationships a finished component-level generate has drawn, in order
RelationshipsDrawn ==
    SelectSeq(diagram.relationships,
              LAMBDA rel : /\ rel.source \in DOMAIN result.value.layout.positions
                           /\ rel.target \in DOMAIN result.value.layout.positions)

AsyncOverridesBidirectional ==
    (GenerateDone /\ diagram.level = "component") =>
        /\ Len(result.value.ax.arrows) = Len(RelationshipsDrawn)
        /\ \A k \in DOMAIN RelationshipsDrawn :
             LET rel == RelationshipsDrawn[k]
                 arrow == result.value.ax.arrows[k]
             IN IF rel.async
                THEN arrow.arrowstyle = "-|>" /\ arrow.linestyle = "--"
                ELSE /\ arrow.linestyle = "-"
                     /\ arrow.arrowstyle = IF rel.bidirectional THEN "<->"
                                           ELSE "->"

\* a drawn relationship with both flags set
AsyncBidirectionalWitness ==
    /\ GenerateDone
    /\ diagram.level = "component"
    /\ \E k \in DOMAIN RelationshipsDrawn :
          /\ RelationshipsDrawn[k].async = TRUE
          /\ RelationshipsDrawn[k].bidirectional = TRUE
          /\ result.value.ax.arrows[k].arrowstyle = "-|>"
          /\ result.value.ax.arrows[k].linestyle = "--"

(***************************************************************************)
(* C30: at code level add_association accepts an association with both     *)
(* aggregation and composition set and generate draws it as an             *)
(* aggregation: the kind is aggregation if that flag is set, else          *)
(* composition if that flag is set, else plain association; the colour of  *)
(* a class is decided by is_interface, then is_abstract, then the type.    *)
(***************************************************************************)
\* the associations a finished code-level generate has drawn, in order
AssociationsDrawn ==
    SelectSeq(diagram.associations,
              LAMBDA assoc : /\ assoc.class1 \in DOMAIN result.value.layout.positions
                             /\ assoc.class2 \in DOMAIN result.value.layout.positions)

KindOf(aggregation, composition) ==
    CASE aggregation -> "aggregation"
      [] ~aggregation /\ composition -> "composition"
      [] OTHER -> "association"

====
